---- MODULE Spec2Model ----
(***************************************************************************)
(* A model of the Lox tree-walking interpreter of lox-typescript: the      *)
(* static Resolver (src/src/Resolver.ts), the Interpreter with its         *)
(* runtime classes (src/src/Interpreter.ts), the Environment               *)
(* (src/unnamed/part_005, second snapshot) and the driver's run()          *)
(* (src/unnamed/part_001, second snapshot).                                *)
(*                                                                         *)
(* The recursive descent of the resolver and of the evaluator is modelled  *)
(* with explicit stacks: rstack holds the resolver's pending calls and     *)
(* return points, kont those of the interpreter, vals the values of the    *)
(* sub-expressions already evaluated.  A thrown exception is the variable  *)
(* signal, and Unwind pops kont up to the nearest handler.                 *)
(***************************************************************************)
EXTENDS Integers, Sequences, FiniteSets, TLC

(***************************************************************************)
(* Bounds of the model.                                                    *)
(***************************************************************************)
\* iterations of the loops of the programs ProgControl and ProgFor
LoopLimit == 2
\* the native clock() answers a number in 0..MaxClock
MaxClock == 1
\* positions past the end of the source that Scanner.current is followed to
MaxOverrun == 2
\* the lines of a session at the prompt
MaxLines == 2
\* the length of the sources the scanner is run on by itself
MaxSource == 4
MaxTokens == 5
\* the tokens left out of a statement
MaxDropped == 1

(***************************************************************************)
(* Runtime values.  Every value is a record of the same shape; t is what   *)
(* the host's typeof / instanceof tells apart.  A number is an integer.    *)
(* Undefined is the host's undefined: what a read of a missing slot of a   *)
(* frame, or of a missing argument, yields.  LoxFunction, LoxClass and     *)
(* LoxInstance values carry the index of their object in funs, classes,    *)
(* insts: two of them are equal iff they are the same object.              *)
(***************************************************************************)
NilVal == [t |-> "nil", n |-> 0, s |-> ""]
Undefined == [t |-> "undefined", n |-> 0, s |-> ""]
BoolVal(b) == [t |-> "boolean", n |-> IF b THEN 1 ELSE 0, s |-> ""]
NumVal(i) == [t |-> "number", n |-> i, s |-> ""]
StrVal(x) == [t |-> "string", n |-> 0, s |-> x]
FunVal(i) == [t |-> "LoxFunction", n |-> i, s |-> ""]
ClassVal(i) == [t |-> "LoxClass", n |-> i, s |-> ""]
InstVal(i) == [t |-> "LoxInstance", n |-> i, s |-> ""]
\* a number that is no integer (a fraction, Infinity, NaN) is the one abstract
\* number NotAnInteger
NotAnInteger == [t |-> "number", n |-> 0, s |-> "NotAnInteger"]
ClockVal == [t |-> "native", n |-> 0, s |-> "clock"]

(***************************************************************************)
(* The AST as the parser builds it.  A program is a table of nodes; a node *)
(* is known by its index, which stands for the identity of the object the  *)
(* interpreter's locals map is keyed on.  Children are indices, 0 is null. *)
(* A token is kept as its lexeme.                                          *)
(***************************************************************************)
Node(type, name, op, a, b, c, list, params, value) ==
  [type |-> type, name |-> name, op |-> op, a |-> a, b |-> b, c |-> c,
   list |-> list, params |-> params, value |-> value]

LiteralExpr(value) == Node("LiteralExpr", "", "", 0, 0, 0, <<>>, <<>>, value)
GroupingExpr(expression) == Node("GroupingExpr", "", "", expression, 0, 0, <<>>, <<>>, NilVal)
UnaryExpr(operator, right) == Node("UnaryExpr", "", operator, right, 0, 0, <<>>, <<>>, NilVal)
BinaryExpr(operator, left, right) == Node("BinaryExpr", "", operator, left, right, 0, <<>>, <<>>, NilVal)
LogicalExpr(operator, left, right) == Node("LogicalExpr", "", operator, left, right, 0, <<>>, <<>>, NilVal)
VariableExpr(name) == Node("VariableExpr", name, "", 0, 0, 0, <<>>, <<>>, NilVal)
AssignExpr(name, value) == Node("AssignExpr", name, "", value, 0, 0, <<>>, <<>>, NilVal)
CallExpr(callee, arguments) == Node("CallExpr", "", "", callee, 0, 0, arguments, <<>>, NilVal)
GetExpr(object, name) == Node("GetExpr", name, "", object, 0, 0, <<>>, <<>>, NilVal)
SetExpr(object, name, value) == Node("SetExpr", name, "", object, value, 0, <<>>, <<>>, NilVal)
\* name is the lexeme of the keyword token, as the scanner cuts it from the source
ThisExpr == Node("ThisExpr", "this", "", 0, 0, 0, <<>>, <<>>, NilVal)
\* op is the lexeme of the method token
SuperExpr(method) == Node("SuperExpr", "super", method, 0, 0, 0, <<>>, <<>>, NilVal)

ExpressionStmt(expression) == Node("ExpressionStmt", "", "", expression, 0, 0, <<>>, <<>>, NilVal)
PrintStmt(expression) == Node("PrintStmt", "", "", expression, 0, 0, <<>>, <<>>, NilVal)
VarStmt(name, initializer) == Node("VarStmt", name, "", initializer, 0, 0, <<>>, <<>>, NilVal)
BlockStmt(statements) == Node("BlockStmt", "", "", 0, 0, 0, statements, <<>>, NilVal)
IfStmt(condition, thenBranch, elseBranch) == Node("IfStmt", "", "", condition, thenBranch, elseBranch, <<>>, <<>>, NilVal)
WhileStmt(condition, body) == Node("WhileStmt", "", "", condition, body, 0, <<>>, <<>>, NilVal)
FunctionStmt(name, params, body) == Node("FunctionStmt", name, "", 0, 0, 0, body, params, NilVal)
ReturnStmt(value) == Node("ReturnStmt", "return", "", value, 0, 0, <<>>, <<>>, NilVal)
\* a is the superclass VariableExpr (0 when there is none), list the methods
ClassStmt(name, superclass, methods) == Node("ClassStmt", name, "", superclass, 0, 0, methods, <<>>, NilVal)

(***************************************************************************)
(* The programs the model runs: the statement lists parse() returns for    *)
(* the sources in the comments (body: the top-level statements).           *)
(***************************************************************************)
\* fun addPair(a, b) { return a + b; }
\* fun identity(a) { return a; }
\* print identity(addPair)(1, 2);
ProgReadme ==
  [ source |-> <<
      "f", "u", "n", " ", "a", "d", "d", "P", "a", "i", "r", "(", "a", ",",
      " ", "b", ")", " ", "{", " ", "r", "e", "t", "u", "r", "n", " ", "a",
      " ", "+", " ", "b", ";", " ", "}", "\n", "f", "u", "n", " ", "i", "d",
      "e", "n", "t", "i", "t", "y", "(", "a", ")", " ", "{", " ", "r", "e",
      "t", "u", "r", "n", " ", "a", ";", " ", "}", "\n", "p", "r", "i", "n",
      "t", " ", "i", "d", "e", "n", "t", "i", "t", "y", "(", "a", "d", "d",
      "P", "a", "i", "r", ")", "(", "1", ",", " ", "2", ")", ";"
    >>,
    errors |-> <<>>,
    body |-> <<5, 8, 15>>,
    nodes |-> <<
      (*  1 *) VariableExpr("a"),
      (*  2 *) VariableExpr("b"),
      (*  3 *) BinaryExpr("PLUS", 1, 2),
      (*  4 *) ReturnStmt(3),
      (*  5 *) FunctionStmt("addPair", <<"a", "b">>, <<4>>),
      (*  6 *) VariableExpr("a"),
      (*  7 *) ReturnStmt(6),
      (*  8 *) FunctionStmt("identity", <<"a">>, <<7>>),
      (*  9 *) VariableExpr("identity"),
      (* 10 *) VariableExpr("addPair"),
      (* 11 *) CallExpr(9, <<10>>),
      (* 12 *) LiteralExpr(NumVal(1)),
      (* 13 *) LiteralExpr(NumVal(2)),
      (* 14 *) CallExpr(11, <<12, 13>>),
      (* 15 *) PrintStmt(14)
    >> ]

\* var a = "global";
\* { fun show() { print a; } var a = "block"; show(); }
ProgLexical ==
  [ source |-> <<
      "v", "a", "r", " ", "a", " ", "=", " ", "\"", "g", "l", "o", "b", "a",
      "l", "\"", ";", "\n", "{", " ", "f", "u", "n", " ", "s", "h", "o", "w",
      "(", ")", " ", "{", " ", "p", "r", "i", "n", "t", " ", "a", ";", " ",
      "}", " ", "v", "a", "r", " ", "a", " ", "=", " ", "\"", "b", "l", "o",
      "c", "k", "\"", ";", " ", "s", "h", "o", "w", "(", ")", ";", " ", "}"
    >>,
    errors |-> <<>>,
    body |-> <<2, 11>>,
    nodes |-> <<
      (*  1 *) LiteralExpr(StrVal("global")),
      (*  2 *) VarStmt("a", 1),
      (*  3 *) VariableExpr("a"),
      (*  4 *) PrintStmt(3),
      (*  5 *) FunctionStmt("show", <<>>, <<4>>),
      (*  6 *) LiteralExpr(StrVal("block")),
      (*  7 *) VarStmt("a", 6),
      (*  8 *) VariableExpr("show"),
      (*  9 *) CallExpr(8, <<>>),
      (* 10 *) ExpressionStmt(9),
      (* 11 *) BlockStmt(<<5, 7, 10>>)
    >> ]

\* fun make() { var i = 0; fun inc() { i = i + 1; return i; } return inc; }
\* var c = make(); print c(); print c(); print c();
ProgClosure ==
  [ source |-> <<
      "f", "u", "n", " ", "m", "a", "k", "e", "(", ")", " ", "{", " ", "v",
      "a", "r", " ", "i", " ", "=", " ", "0", ";", " ", "f", "u", "n", " ",
      "i", "n", "c", "(", ")", " ", "{", " ", "i", " ", "=", " ", "i", " ",
      "+", " ", "1", ";", " ", "r", "e", "t", "u", "r", "n", " ", "i", ";",
      " ", "}", " ", "r", "e", "t", "u", "r", "n", " ", "i", "n", "c", ";",
      " ", "}", "\n", "v", "a", "r", " ", "c", " ", "=", " ", "m", "a", "k",
      "e", "(", ")", ";", " ", "p", "r", "i", "n", "t", " ", "c", "(", ")",
      ";", " ", "p", "r", "i", "n", "t", " ", "c", "(", ")", ";", " ", "p",
      "r", "i", "n", "t", " ", "c", "(", ")", ";"
    >>,
    errors |-> <<>>,
    body |-> <<13, 16, 19, 22, 25>>,
    nodes |-> <<
      (*  1 *) LiteralExpr(NumVal(0)),
      (*  2 *) VarStmt("i", 1),
      (*  3 *) VariableExpr("i"),
      (*  4 *) LiteralExpr(NumVal(1)),
      (*  5 *) BinaryExpr("PLUS", 3, 4),
      (*  6 *) AssignExpr("i", 5),
      (*  7 *) ExpressionStmt(6),
      (*  8 *) VariableExpr("i"),
      (*  9 *) ReturnStmt(8),
      (* 10 *) FunctionStmt("inc", <<>>, <<7, 9>>),
      (* 11 *) VariableExpr("inc"),
      (* 12 *) ReturnStmt(11),
      (* 13 *) FunctionStmt("make", <<>>, <<2, 10, 12>>),
      (* 14 *) VariableExpr("make"),
      (* 15 *) CallExpr(14, <<>>),
      (* 16 *) VarStmt("c", 15),
      (* 17 *) VariableExpr("c"),
      (* 18 *) CallExpr(17, <<>>),
      (* 19 *) PrintStmt(18),
      (* 20 *) VariableExpr("c"),
      (* 21 *) CallExpr(20, <<>>),
      (* 22 *) PrintStmt(21),
      (* 23 *) VariableExpr("c"),
      (* 24 *) CallExpr(23, <<>>),
      (* 25 *) PrintStmt(24)
    >> ]

\* class A { f() { print "A"; } }
\* class B < A { f() { super.f(); print "B"; } }
\* B().f();
ProgSuper ==
  [ source |-> <<
      "c", "l", "a", "s", "s", " ", "A", " ", "{", " ", "f", "(", ")", " ",
      "{", " ", "p", "r", "i", "n", "t", " ", "\"", "A", "\"", ";", " ", "}",
      " ", "}", "\n", "c", "l", "a", "s", "s", " ", "B", " ", "<", " ", "A",
      " ", "{", " ", "f", "(", ")", " ", "{", " ", "s", "u", "p", "e", "r",
      ".", "f", "(", ")", ";", " ", "p", "r", "i", "n", "t", " ", "\"", "B",
      "\"", ";", " ", "}", " ", "}", "\n", "B", "(", ")", ".", "f", "(", ")",
      ";"
    >>,
    errors |-> <<>>,
    body |-> <<4, 12, 17>>,
    nodes |-> <<
      (*  1 *) LiteralExpr(StrVal("A")),
      (*  2 *) PrintStmt(1),
      (*  3 *) FunctionStmt("f", <<>>, <<2>>),
      (*  4 *) ClassStmt("A", 0, <<3>>),
      (*  5 *) VariableExpr("A"),
      (*  6 *) SuperExpr("f"),
      (*  7 *) CallExpr(6, <<>>),
      (*  8 *) ExpressionStmt(7),
      (*  9 *) LiteralExpr(StrVal("B")),
      (* 10 *) PrintStmt(9),
      (* 11 *) FunctionStmt("f", <<>>, <<8, 10>>),
      (* 12 *) ClassStmt("B", 5, <<11>>),
      (* 13 *) VariableExpr("B"),
      (* 14 *) CallExpr(13, <<>>),
      (* 15 *) GetExpr(14, "f"),
      (* 16 *) CallExpr(15, <<>>),
      (* 17 *) ExpressionStmt(16)
    >> ]

\* class Counter { init(n) { this.n = n; } get() { return this.n; } }
\* var c = Counter(5); print c.get();
ProgCounter ==
  [ source |-> <<
      "c", "l", "a", "s", "s", " ", "C", "o", "u", "n", "t", "e", "r", " ",
      "{", " ", "i", "n", "i", "t", "(", "n", ")", " ", "{", " ", "t", "h",
      "i", "s", ".", "n", " ", "=", " ", "n", ";", " ", "}", " ", "g", "e",
      "t", "(", ")", " ", "{", " ", "r", "e", "t", "u", "r", "n", " ", "t",
      "h", "i", "s", ".", "n", ";", " ", "}", " ", "}", "\n", "v", "a", "r",
      " ", "c", " ", "=", " ", "C", "o", "u", "n", "t", "e", "r", "(", "5",
      ")", ";", " ", "p", "r", "i", "n", "t", " ", "c", ".", "g", "e", "t",
      "(", ")", ";"
    >>,
    errors |-> <<>>,
    body |-> <<10, 14, 18>>,
    nodes |-> <<
      (*  1 *) ThisExpr,
      (*  2 *) VariableExpr("n"),
      (*  3 *) SetExpr(1, "n", 2),
      (*  4 *) ExpressionStmt(3),
      (*  5 *) FunctionStmt("init", <<"n">>, <<4>>),
      (*  6 *) ThisExpr,
      (*  7 *) GetExpr(6, "n"),
      (*  8 *) ReturnStmt(7),
      (*  9 *) FunctionStmt("get", <<>>, <<8>>),
      (* 10 *) ClassStmt("Counter", 0, <<5, 9>>),
      (* 11 *) VariableExpr("Counter"),
      (* 12 *) LiteralExpr(NumVal(5)),
      (* 13 *) CallExpr(11, <<12>>),
      (* 14 *) VarStmt("c", 13),
      (* 15 *) VariableExpr("c"),
      (* 16 *) GetExpr(15, "get"),
      (* 17 *) CallExpr(16, <<>>),
      (* 18 *) PrintStmt(17)
    >> ]

\* print 1; { return 2; } print 3;
ProgTopReturn ==
  [ source |-> <<
      "p", "r", "i", "n", "t", " ", "1", ";", " ", "{", " ", "r", "e", "t",
      "u", "r", "n", " ", "2", ";", " ", "}", " ", "p", "r", "i", "n", "t",
      " ", "3", ";"
    >>,
    errors |-> <<>>,
    body |-> <<2, 5, 7>>,
    nodes |-> <<
      (* 1 *) LiteralExpr(NumVal(1)),
      (* 2 *) PrintStmt(1),
      (* 3 *) LiteralExpr(NumVal(2)),
      (* 4 *) ReturnStmt(3),
      (* 5 *) BlockStmt(<<4>>),
      (* 6 *) LiteralExpr(NumVal(3)),
      (* 7 *) PrintStmt(6)
    >> ]

\* { var a = 1; { var a = 2; print a; } }
ProgShadow ==
  [ source |-> <<
      "{", " ", "v", "a", "r", " ", "a", " ", "=", " ", "1", ";", " ", "{",
      " ", "v", "a", "r", " ", "a", " ", "=", " ", "2", ";", " ", "p", "r",
      "i", "n", "t", " ", "a", ";", " ", "}", " ", "}"
    >>,
    errors |-> <<>>,
    body |-> <<8>>,
    nodes |-> <<
      (* 1 *) LiteralExpr(NumVal(1)),
      (* 2 *) VarStmt("a", 1),
      (* 3 *) LiteralExpr(NumVal(2)),
      (* 4 *) VarStmt("a", 3),
      (* 5 *) VariableExpr("a"),
      (* 6 *) PrintStmt(5),
      (* 7 *) BlockStmt(<<4, 6>>),
      (* 8 *) BlockStmt(<<2, 7>>)
    >> ]

\* { var a = "outer"; { var a = "inner"; fun show() { print a; } show(); } }
ProgShadowFun ==
  [ source |-> <<
      "{", " ", "v", "a", "r", " ", "a", " ", "=", " ", "\"", "o", "u", "t",
      "e", "r", "\"", ";", " ", "{", " ", "v", "a", "r", " ", "a", " ", "=",
      " ", "\"", "i", "n", "n", "e", "r", "\"", ";", " ", "f", "u", "n", " ",
      "s", "h", "o", "w", "(", ")", " ", "{", " ", "p", "r", "i", "n", "t",
      " ", "a", ";", " ", "}", " ", "s", "h", "o", "w", "(", ")", ";", " ",
      "}", " ", "}"
    >>,
    errors |-> <<>>,
    body |-> <<12>>,
    nodes |-> <<
      (*  1 *) LiteralExpr(StrVal("outer")),
      (*  2 *) VarStmt("a", 1),
      (*  3 *) LiteralExpr(StrVal("inner")),
      (*  4 *) VarStmt("a", 3),
      (*  5 *) VariableExpr("a"),
      (*  6 *) PrintStmt(5),
      (*  7 *) FunctionStmt("show", <<>>, <<6>>),
      (*  8 *) VariableExpr("show"),
      (*  9 *) CallExpr(8, <<>>),
      (* 10 *) ExpressionStmt(9),
      (* 11 *) BlockStmt(<<4, 7, 10>>),
      (* 12 *) BlockStmt(<<2, 11>>)
    >> ]

\* class C { me() { print this; } }
\* C().me();
ProgThis ==
  [ source |-> <<
      "c", "l", "a", "s", "s", " ", "C", " ", "{", " ", "m", "e", "(", ")",
      " ", "{", " ", "p", "r", "i", "n", "t", " ", "t", "h", "i", "s", ";",
      " ", "}", " ", "}", "\n", "C", "(", ")", ".", "m", "e", "(", ")", ";"
    >>,
    errors |-> <<>>,
    body |-> <<4, 9>>,
    nodes |-> <<
      (* 1 *) ThisExpr,
      (* 2 *) PrintStmt(1),
      (* 3 *) FunctionStmt("me", <<>>, <<2>>),
      (* 4 *) ClassStmt("C", 0, <<3>>),
      (* 5 *) VariableExpr("C"),
      (* 6 *) CallExpr(5, <<>>),
      (* 7 *) GetExpr(6, "me"),
      (* 8 *) CallExpr(7, <<>>),
      (* 9 *) ExpressionStmt(8)
    >> ]

\* fun outer(x) { fun inner() { x = x + 1; print x; } inner(); inner(); }
\* outer(1);
ProgNested ==
  [ source |-> <<
      "f", "u", "n", " ", "o", "u", "t", "e", "r", "(", "x", ")", " ", "{",
      " ", "f", "u", "n", " ", "i", "n", "n", "e", "r", "(", ")", " ", "{",
      " ", "x", " ", "=", " ", "x", " ", "+", " ", "1", ";", " ", "p", "r",
      "i", "n", "t", " ", "x", ";", " ", "}", " ", "i", "n", "n", "e", "r",
      "(", ")", ";", " ", "i", "n", "n", "e", "r", "(", ")", ";", " ", "}",
      "\n", "o", "u", "t", "e", "r", "(", "1", ")", ";"
    >>,
    errors |-> <<>>,
    body |-> <<15, 19>>,
    nodes |-> <<
      (*  1 *) VariableExpr("x"),
      (*  2 *) LiteralExpr(NumVal(1)),
      (*  3 *) BinaryExpr("PLUS", 1, 2),
      (*  4 *) AssignExpr("x", 3),
      (*  5 *) ExpressionStmt(4),
      (*  6 *) VariableExpr("x"),
      (*  7 *) PrintStmt(6),
      (*  8 *) FunctionStmt("inner", <<>>, <<5, 7>>),
      (*  9 *) VariableExpr("inner"),
      (* 10 *) CallExpr(9, <<>>),
      (* 11 *) ExpressionStmt(10),
      (* 12 *) VariableExpr("inner"),
      (* 13 *) CallExpr(12, <<>>),
      (* 14 *) ExpressionStmt(13),
      (* 15 *) FunctionStmt("outer", <<"x">>, <<8, 11, 14>>),
      (* 16 *) VariableExpr("outer"),
      (* 17 *) LiteralExpr(NumVal(1)),
      (* 18 *) CallExpr(16, <<17>>),
      (* 19 *) ExpressionStmt(18)
    >> ]

\* var i = 0;
\* while (i < LoopLimit) { if (i == 0) print "zero"; else print "more"; i = i + 1; }
\* var t = (1 < 2) and !false; print t or nil; print -(3 - 1);
ProgControl ==
  [ source |-> <<
      "v", "a", "r", " ", "i", " ", "=", " ", "0", ";", "\n", "w", "h", "i",
      "l", "e", " ", "(", "i", " ", "<", " ", ToString(LoopLimit), ")", " ",
      "{", " ", "i", "f", " ", "(", "i", " ", "=", "=", " ", "0", ")", " ",
      "p", "r", "i", "n", "t", " ", "\"", "z", "e", "r", "o", "\"", ";", " ",
      "e", "l", "s", "e", " ", "p", "r", "i", "n", "t", " ", "\"", "m", "o",
      "r", "e", "\"", ";", " ", "i", " ", "=", " ", "i", " ", "+", " ", "1",
      ";", " ", "}", "\n", "v", "a", "r", " ", "t", " ", "=", " ", "(", "1",
      " ", "<", " ", "2", ")", " ", "a", "n", "d", " ", "!", "f", "a", "l",
      "s", "e", ";", " ", "p", "r", "i", "n", "t", " ", "t", " ", "o", "r",
      " ", "n", "i", "l", ";", " ", "p", "r", "i", "n", "t", " ", "-", "(",
      "3", " ", "-", " ", "1", ")", ";"
    >>,
    errors |-> <<>>,
    body |-> <<2, 20, 28, 32, 38>>,
    nodes |-> <<
      (*  1 *) LiteralExpr(NumVal(0)),
      (*  2 *) VarStmt("i", 1),
      (*  3 *) VariableExpr("i"),
      (*  4 *) LiteralExpr(NumVal(LoopLimit)),
      (*  5 *) BinaryExpr("LESS", 3, 4),
      (*  6 *) VariableExpr("i"),
      (*  7 *) LiteralExpr(NumVal(0)),
      (*  8 *) BinaryExpr("EQUAL_EQUAL", 6, 7),
      (*  9 *) LiteralExpr(StrVal("zero")),
      (* 10 *) PrintStmt(9),
      (* 11 *) LiteralExpr(StrVal("more")),
      (* 12 *) PrintStmt(11),
      (* 13 *) IfStmt(8, 10, 12),
      (* 14 *) VariableExpr("i"),
      (* 15 *) LiteralExpr(NumVal(1)),
      (* 16 *) BinaryExpr("PLUS", 14, 15),
      (* 17 *) AssignExpr("i", 16),
      (* 18 *) ExpressionStmt(17),
      (* 19 *) BlockStmt(<<13, 18>>),
      (* 20 *) WhileStmt(5, 19),
      (* 21 *) LiteralExpr(NumVal(1)),
      (* 22 *) LiteralExpr(NumVal(2)),
      (* 23 *) BinaryExpr("LESS", 21, 22),
      (* 24 *) GroupingExpr(23),
      (* 25 *) LiteralExpr(BoolVal(FALSE)),
      (* 26 *) UnaryExpr("BANG", 25),
      (* 27 *) LogicalExpr("AND", 24, 26),
      (* 28 *) VarStmt("t", 27),
      (* 29 *) VariableExpr("t"),
      (* 30 *) LiteralExpr(NilVal),
      (* 31 *) LogicalExpr("OR", 29, 30),
      (* 32 *) PrintStmt(31),
      (* 33 *) LiteralExpr(NumVal(3)),
      (* 34 *) LiteralExpr(NumVal(1)),
      (* 35 *) BinaryExpr("MINUS", 33, 34),
      (* 36 *) GroupingExpr(35),
      (* 37 *) UnaryExpr("MINUS", 36),
      (* 38 *) PrintStmt(37)
    >> ]

\* class P {}
\* var p = P(); p.x = 4; print p.x; print p.y;
ProgFields ==
  [ source |-> <<
      "c", "l", "a", "s", "s", " ", "P", " ", "{", "}", "\n", "v", "a", "r",
      " ", "p", " ", "=", " ", "P", "(", ")", ";", " ", "p", ".", "x", " ",
      "=", " ", "4", ";", " ", "p", "r", "i", "n", "t", " ", "p", ".", "x",
      ";", " ", "p", "r", "i", "n", "t", " ", "p", ".", "y", ";"
    >>,
    errors |-> <<>>,
    body |-> <<1, 4, 8, 11, 14>>,
    nodes |-> <<
      (*  1 *) ClassStmt("P", 0, <<>>),
      (*  2 *) VariableExpr("P"),
      (*  3 *) CallExpr(2, <<>>),
      (*  4 *) VarStmt("p", 3),
      (*  5 *) VariableExpr("p"),
      (*  6 *) LiteralExpr(NumVal(4)),
      (*  7 *) SetExpr(5, "x", 6),
      (*  8 *) ExpressionStmt(7),
      (*  9 *) VariableExpr("p"),
      (* 10 *) GetExpr(9, "x"),
      (* 11 *) PrintStmt(10),
      (* 12 *) VariableExpr("p"),
      (* 13 *) GetExpr(12, "y"),
      (* 14 *) PrintStmt(13)
    >> ]

\* for (var i = 0; i < LoopLimit; i = i + 1) print i;
ProgFor ==
  [ source |-> <<
      "f", "o", "r", " ", "(", "v", "a", "r", " ", "i", " ", "=", " ", "0",
      ";", " ", "i", " ", "<", " ", ToString(LoopLimit), ";", " ", "i", " ",
      "=", " ", "i", " ", "+", " ", "1", ")", " ", "p", "r", "i", "n", "t",
      " ", "i", ";"
    >>,
    errors |-> <<>>,
    body |-> <<15>>,
    nodes |-> <<
      (*  1 *) LiteralExpr(NumVal(0)),
      (*  2 *) VarStmt("i", 1),
      (*  3 *) VariableExpr("i"),
      (*  4 *) LiteralExpr(NumVal(LoopLimit)),
      (*  5 *) BinaryExpr("LESS", 3, 4),
      (*  6 *) VariableExpr("i"),
      (*  7 *) PrintStmt(6),
      (*  8 *) VariableExpr("i"),
      (*  9 *) LiteralExpr(NumVal(1)),
      (* 10 *) BinaryExpr("PLUS", 8, 9),
      (* 11 *) AssignExpr("i", 10),
      (* 12 *) ExpressionStmt(11),
      (* 13 *) BlockStmt(<<7, 12>>),
      (* 14 *) WhileStmt(5, 13),
      (* 15 *) BlockStmt(<<2, 14>>)
    >> ]

\* class G { init() { print "made"; } hi(x) { print x; } }
\* var g = G(); g.hi(7);
ProgInit ==
  [ source |-> <<
      "c", "l", "a", "s", "s", " ", "G", " ", "{", " ", "i", "n", "i", "t",
      "(", ")", " ", "{", " ", "p", "r", "i", "n", "t", " ", "\"", "m", "a",
      "d", "e", "\"", ";", " ", "}", " ", "h", "i", "(", "x", ")", " ", "{",
      " ", "p", "r", "i", "n", "t", " ", "x", ";", " ", "}", " ", "}", "\n",
      "v", "a", "r", " ", "g", " ", "=", " ", "G", "(", ")", ";", " ", "g",
      ".", "h", "i", "(", "7", ")", ";"
    >>,
    errors |-> <<>>,
    body |-> <<7, 10, 15>>,
    nodes |-> <<
      (*  1 *) LiteralExpr(StrVal("made")),
      (*  2 *) PrintStmt(1),
      (*  3 *) FunctionStmt("init", <<>>, <<2>>),
      (*  4 *) VariableExpr("x"),
      (*  5 *) PrintStmt(4),
      (*  6 *) FunctionStmt("hi", <<"x">>, <<5>>),
      (*  7 *) ClassStmt("G", 0, <<3, 6>>),
      (*  8 *) VariableExpr("G"),
      (*  9 *) CallExpr(8, <<>>),
      (* 10 *) VarStmt("g", 9),
      (* 11 *) VariableExpr("g"),
      (* 12 *) GetExpr(11, "hi"),
      (* 13 *) LiteralExpr(NumVal(7)),
      (* 14 *) CallExpr(12, <<13>>),
      (* 15 *) ExpressionStmt(14)
    >> ]

\* class K { init(n) { print n; } }
\* K();
ProgInitArity ==
  [ source |-> <<
      "c", "l", "a", "s", "s", " ", "K", " ", "{", " ", "i", "n", "i", "t",
      "(", "n", ")", " ", "{", " ", "p", "r", "i", "n", "t", " ", "n", ";",
      " ", "}", " ", "}", "\n", "K", "(", ")", ";"
    >>,
    errors |-> <<>>,
    body |-> <<4, 7>>,
    nodes |-> <<
      (* 1 *) VariableExpr("n"),
      (* 2 *) PrintStmt(1),
      (* 3 *) FunctionStmt("init", <<"n">>, <<2>>),
      (* 4 *) ClassStmt("K", 0, <<3>>),
      (* 5 *) VariableExpr("K"),
      (* 6 *) CallExpr(5, <<>>),
      (* 7 *) ExpressionStmt(6)
    >> ]

\* print "a" + "b"; "a" + 1; print 2;
ProgPlusError ==
  [ source |-> <<
      "p", "r", "i", "n", "t", " ", "\"", "a", "\"", " ", "+", " ", "\"", "b",
      "\"", ";", " ", "\"", "a", "\"", " ", "+", " ", "1", ";", " ", "p", "r",
      "i", "n", "t", " ", "2", ";"
    >>,
    errors |-> <<>>,
    body |-> <<4, 8, 10>>,
    nodes |-> <<
      (*  1 *) LiteralExpr(StrVal("a")),
      (*  2 *) LiteralExpr(StrVal("b")),
      (*  3 *) BinaryExpr("PLUS", 1, 2),
      (*  4 *) PrintStmt(3),
      (*  5 *) LiteralExpr(StrVal("a")),
      (*  6 *) LiteralExpr(NumVal(1)),
      (*  7 *) BinaryExpr("PLUS", 5, 6),
      (*  8 *) ExpressionStmt(7),
      (*  9 *) LiteralExpr(NumVal(2)),
      (* 10 *) PrintStmt(9)
    >> ]

\* var x; x();
ProgCallNil ==
  [ source |-> <<
      "v", "a", "r", " ", "x", ";", " ", "x", "(", ")", ";"
    >>,
    errors |-> <<>>,
    body |-> <<1, 4>>,
    nodes |-> <<
      (* 1 *) VarStmt("x", 0),
      (* 2 *) VariableExpr("x"),
      (* 3 *) CallExpr(2, <<>>),
      (* 4 *) ExpressionStmt(3)
    >> ]

\* print clock() >= 0; clock(1);
ProgClock ==
  [ source |-> <<
      "p", "r", "i", "n", "t", " ", "c", "l", "o", "c", "k", "(", ")", " ",
      ">", "=", " ", "0", ";", " ", "c", "l", "o", "c", "k", "(", "1", ")",
      ";"
    >>,
    errors |-> <<>>,
    body |-> <<5, 9>>,
    nodes |-> <<
      (* 1 *) VariableExpr("clock"),
      (* 2 *) CallExpr(1, <<>>),
      (* 3 *) LiteralExpr(NumVal(0)),
      (* 4 *) BinaryExpr("GREATER_EQUAL", 2, 3),
      (* 5 *) PrintStmt(4),
      (* 6 *) VariableExpr("clock"),
      (* 7 *) LiteralExpr(NumVal(1)),
      (* 8 *) CallExpr(6, <<7>>),
      (* 9 *) ExpressionStmt(8)
    >> ]

\* { var z = 9; class A { m(k) { if (k) { print z; } } }
\*   class B < A { n() { print z; } }
\*   B().m(true); B().n(); }
ProgMethodScope ==
  [ source |-> <<
      "{", " ", "v", "a", "r", " ", "z", " ", "=", " ", "9", ";", " ", "c",
      "l", "a", "s", "s", " ", "A", " ", "{", " ", "m", "(", "k", ")", " ",
      "{", " ", "i", "f", " ", "(", "k", ")", " ", "{", " ", "p", "r", "i",
      "n", "t", " ", "z", ";", " ", "}", " ", "}", " ", "}", "\n", " ", " ",
      "c", "l", "a", "s", "s", " ", "B", " ", "<", " ", "A", " ", "{", " ",
      "n", "(", ")", " ", "{", " ", "p", "r", "i", "n", "t", " ", "z", ";",
      " ", "}", " ", "}", "\n", " ", " ", "B", "(", ")", ".", "m", "(", "t",
      "r", "u", "e", ")", ";", " ", "B", "(", ")", ".", "n", "(", ")", ";",
      " ", "}"
    >>,
    errors |-> <<>>,
    body |-> <<26>>,
    nodes |-> <<
      (*  1 *) LiteralExpr(NumVal(9)),
      (*  2 *) VarStmt("z", 1),
      (*  3 *) VariableExpr("k"),
      (*  4 *) VariableExpr("z"),
      (*  5 *) PrintStmt(4),
      (*  6 *) BlockStmt(<<5>>),
      (*  7 *) IfStmt(3, 6, 0),
      (*  8 *) FunctionStmt("m", <<"k">>, <<7>>),
      (*  9 *) ClassStmt("A", 0, <<8>>),
      (* 10 *) VariableExpr("A"),
      (* 11 *) VariableExpr("z"),
      (* 12 *) PrintStmt(11),
      (* 13 *) FunctionStmt("n", <<>>, <<12>>),
      (* 14 *) ClassStmt("B", 10, <<13>>),
      (* 15 *) VariableExpr("B"),
      (* 16 *) CallExpr(15, <<>>),
      (* 17 *) GetExpr(16, "m"),
      (* 18 *) LiteralExpr(BoolVal(TRUE)),
      (* 19 *) CallExpr(17, <<18>>),
      (* 20 *) ExpressionStmt(19),
      (* 21 *) VariableExpr("B"),
      (* 22 *) CallExpr(21, <<>>),
      (* 23 *) GetExpr(22, "n"),
      (* 24 *) CallExpr(23, <<>>),
      (* 25 *) ExpressionStmt(24),
      (* 26 *) BlockStmt(<<2, 9, 14, 20, 25>>)
    >> ]

\* fun one() { { return 1; } }
\* fun none() { return; }
\* print one(); print none();
ProgReturn ==
  [ source |-> <<
      "f", "u", "n", " ", "o", "n", "e", "(", ")", " ", "{", " ", "{", " ",
      "r", "e", "t", "u", "r", "n", " ", "1", ";", " ", "}", " ", "}", "\n",
      "f", "u", "n", " ", "n", "o", "n", "e", "(", ")", " ", "{", " ", "r",
      "e", "t", "u", "r", "n", ";", " ", "}", "\n", "p", "r", "i", "n", "t",
      " ", "o", "n", "e", "(", ")", ";", " ", "p", "r", "i", "n", "t", " ",
      "n", "o", "n", "e", "(", ")", ";"
    >>,
    errors |-> <<>>,
    body |-> <<4, 6, 9, 12>>,
    nodes |-> <<
      (*  1 *) LiteralExpr(NumVal(1)),
      (*  2 *) ReturnStmt(1),
      (*  3 *) BlockStmt(<<2>>),
      (*  4 *) FunctionStmt("one", <<>>, <<3>>),
      (*  5 *) ReturnStmt(0),
      (*  6 *) FunctionStmt("none", <<>>, <<5>>),
      (*  7 *) VariableExpr("one"),
      (*  8 *) CallExpr(7, <<>>),
      (*  9 *) PrintStmt(8),
      (* 10 *) VariableExpr("none"),
      (* 11 *) CallExpr(10, <<>>),
      (* 12 *) PrintStmt(11)
    >> ]

\* { var a = a; }
\* print 1;
ProgSelfInit ==
  [ source |-> <<
      "{", " ", "v", "a", "r", " ", "a", " ", "=", " ", "a", ";", " ", "}",
      "\n", "p", "r", "i", "n", "t", " ", "1", ";"
    >>,
    errors |-> <<>>,
    body |-> <<3, 5>>,
    nodes |-> <<
      (* 1 *) VariableExpr("a"),
      (* 2 *) VarStmt("a", 1),
      (* 3 *) BlockStmt(<<2>>),
      (* 4 *) LiteralExpr(NumVal(1)),
      (* 5 *) PrintStmt(4)
    >> ]

\* class Oops < Oops {}
\* print this;
\* { var a; var a; }
\* super.f; class N { g() { super.g; } }
ProgStaticErrors ==
  [ source |-> <<
      "c", "l", "a", "s", "s", " ", "O", "o", "p", "s", " ", "<", " ", "O",
      "o", "p", "s", " ", "{", "}", "\n", "p", "r", "i", "n", "t", " ", "t",
      "h", "i", "s", ";", "\n", "{", " ", "v", "a", "r", " ", "a", ";", " ",
      "v", "a", "r", " ", "a", ";", " ", "}", "\n", "s", "u", "p", "e", "r",
      ".", "f", ";", " ", "c", "l", "a", "s", "s", " ", "N", " ", "{", " ",
      "g", "(", ")", " ", "{", " ", "s", "u", "p", "e", "r", ".", "g", ";",
      " ", "}", " ", "}"
    >>,
    errors |-> <<>>,
    body |-> <<2, 4, 7, 9, 13>>,
    nodes |-> <<
      (*  1 *) VariableExpr("Oops"),
      (*  2 *) ClassStmt("Oops", 1, <<>>),
      (*  3 *) ThisExpr,
      (*  4 *) PrintStmt(3),
      (*  5 *) VarStmt("a", 0),
      (*  6 *) VarStmt("a", 0),
      (*  7 *) BlockStmt(<<5, 6>>),
      (*  8 *) SuperExpr("f"),
      (*  9 *) ExpressionStmt(8),
      (* 10 *) SuperExpr("g"),
      (* 11 *) ExpressionStmt(10),
      (* 12 *) FunctionStmt("g", <<>>, <<11>>),
      (* 13 *) ClassStmt("N", 0, <<12>>)
    >> ]

\* { fun down(n) { if (n > 0) { print n; down(n - 1); } } down(LoopLimit); }
ProgRecursion ==
  [ source |-> <<
      "{", " ", "f", "u", "n", " ", "d", "o", "w", "n", "(", "n", ")", " ",
      "{", " ", "i", "f", " ", "(", "n", " ", ">", " ", "0", ")", " ", "{",
      " ", "p", "r", "i", "n", "t", " ", "n", ";", " ", "d", "o", "w", "n",
      "(", "n", " ", "-", " ", "1", ")", ";", " ", "}", " ", "}", " ", "d",
      "o", "w", "n", "(", ToString(LoopLimit), ")", ";", " ", "}"
    >>,
    errors |-> <<>>,
    body |-> <<19>>,
    nodes |-> <<
      (*  1 *) VariableExpr("n"),
      (*  2 *) LiteralExpr(NumVal(0)),
      (*  3 *) BinaryExpr("GREATER", 1, 2),
      (*  4 *) VariableExpr("n"),
      (*  5 *) PrintStmt(4),
      (*  6 *) VariableExpr("down"),
      (*  7 *) VariableExpr("n"),
      (*  8 *) LiteralExpr(NumVal(1)),
      (*  9 *) BinaryExpr("MINUS", 7, 8),
      (* 10 *) CallExpr(6, <<9>>),
      (* 11 *) ExpressionStmt(10),
      (* 12 *) BlockStmt(<<5, 11>>),
      (* 13 *) IfStmt(3, 12, 0),
      (* 14 *) FunctionStmt("down", <<"n">>, <<13>>),
      (* 15 *) VariableExpr("down"),
      (* 16 *) LiteralExpr(NumVal(LoopLimit)),
      (* 17 *) CallExpr(15, <<16>>),
      (* 18 *) ExpressionStmt(17),
      (* 19 *) BlockStmt(<<14, 18>>)
    >> ]

\* class K { init() { return 1; } }
\* print 2;
ProgInitReturn ==
  [ source |-> <<
      "c", "l", "a", "s", "s", " ", "K", " ", "{", " ", "i", "n", "i", "t",
      "(", ")", " ", "{", " ", "r", "e", "t", "u", "r", "n", " ", "1", ";",
      " ", "}", " ", "}", "\n", "p", "r", "i", "n", "t", " ", "2", ";"
    >>,
    errors |-> <<>>,
    body |-> <<4, 6>>,
    nodes |-> <<
      (* 1 *) LiteralExpr(NumVal(1)),
      (* 2 *) ReturnStmt(1),
      (* 3 *) FunctionStmt("init", <<>>, <<2>>),
      (* 4 *) ClassStmt("K", 0, <<3>>),
      (* 5 *) LiteralExpr(NumVal(2)),
      (* 6 *) PrintStmt(5)
    >> ]

\* class L { init() { return; } }
\* print 2;
ProgInitBareReturn ==
  [ source |-> <<
      "c", "l", "a", "s", "s", " ", "L", " ", "{", " ", "i", "n", "i", "t",
      "(", ")", " ", "{", " ", "r", "e", "t", "u", "r", "n", ";", " ", "}",
      " ", "}", "\n", "p", "r", "i", "n", "t", " ", "2", ";"
    >>,
    errors |-> <<>>,
    body |-> <<3, 5>>,
    nodes |-> <<
      (* 1 *) ReturnStmt(0),
      (* 2 *) FunctionStmt("init", <<>>, <<1>>),
      (* 3 *) ClassStmt("L", 0, <<2>>),
      (* 4 *) LiteralExpr(NumVal(2)),
      (* 5 *) PrintStmt(4)
    >> ]

\* var g = "kept";
\* { var l = 1; print g + l; }
\* print "after";
ProgGlobalThenError ==
  [ source |-> <<
      "v", "a", "r", " ", "g", " ", "=", " ", "\"", "k", "e", "p", "t", "\"",
      ";", "\n", "{", " ", "v", "a", "r", " ", "l", " ", "=", " ", "1", ";",
      " ", "p", "r", "i", "n", "t", " ", "g", " ", "+", " ", "l", ";", " ",
      "}", "\n", "p", "r", "i", "n", "t", " ", "\"", "a", "f", "t", "e", "r",
      "\"", ";"
    >>,
    errors |-> <<>>,
    body |-> <<2, 9, 11>>,
    nodes |-> <<
      (*  1 *) LiteralExpr(StrVal("kept")),
      (*  2 *) VarStmt("g", 1),
      (*  3 *) LiteralExpr(NumVal(1)),
      (*  4 *) VarStmt("l", 3),
      (*  5 *) VariableExpr("g"),
      (*  6 *) VariableExpr("l"),
      (*  7 *) BinaryExpr("PLUS", 5, 6),
      (*  8 *) PrintStmt(7),
      (*  9 *) BlockStmt(<<4, 8>>),
      (* 10 *) LiteralExpr(StrVal("after")),
      (* 11 *) PrintStmt(10)
    >> ]

\* print g;
ProgReadG ==
  [ source |-> <<
      "p", "r", "i", "n", "t", " ", "g", ";"
    >>,
    errors |-> <<>>,
    body |-> <<2>>,
    nodes |-> <<
      (* 1 *) VariableExpr("g"),
      (* 2 *) PrintStmt(1)
    >> ]

\* print 1; @
ProgScanError ==
  [ source |-> <<
      "p", "r", "i", "n", "t", " ", "1", ";", " ", "@"
    >>,
    errors |-> <<>>,
    body |-> <<2>>,
    nodes |-> <<
      (* 1 *) LiteralExpr(NumVal(1)),
      (* 2 *) PrintStmt(1)
    >> ]

\* print ;
\* print 1;
ProgParseError ==
  [ source |-> <<
      "p", "r", "i", "n", "t", " ", ";", "\n", "p", "r", "i", "n", "t", " ",
      "1", ";"
    >>,
    errors |-> <<"Expected expression">>,
    body |-> <<2>>,
    nodes |-> <<
      (* 1 *) LiteralExpr(NumVal(1)),
      (* 2 *) PrintStmt(1)
    >> ]

\* print "abc
ProgUnterminated ==
  [ source |-> <<
      "p", "r", "i", "n", "t", " ", "\"", "a", "b", "c"
    >>,
    errors |-> <<>>,
    body |-> <<>>,
    nodes |-> <<
    >> ]

\* print "a
\* b";
\* print 4 / 2; // half
ProgStringLines ==
  [ source |-> <<
      "p", "r", "i", "n", "t", " ", "\"", "a", "\n", "b", "\"", ";", "\n",
      "p", "r", "i", "n", "t", " ", "4", " ", "/", " ", "2", ";", " ", "/",
      "/", " ", "h", "a", "l", "f"
    >>,
    errors |-> <<>>,
    body |-> <<2, 6>>,
    nodes |-> <<
      (* 1 *) LiteralExpr(StrVal("a\nb")),
      (* 2 *) PrintStmt(1),
      (* 3 *) LiteralExpr(NumVal(4)),
      (* 4 *) LiteralExpr(NumVal(2)),
      (* 5 *) BinaryExpr("SLASH", 3, 4),
      (* 6 *) PrintStmt(5)
    >> ]

\* var a = a;
\* print 1;
ProgGlobalSelfInit ==
  [ source |-> <<
      "v", "a", "r", " ", "a", " ", "=", " ", "a", ";", "\n", "p", "r", "i",
      "n", "t", " ", "1", ";"
    >>,
    errors |-> <<>>,
    body |-> <<2, 4>>,
    nodes |-> <<
      (* 1 *) VariableExpr("a"),
      (* 2 *) VarStmt("a", 1),
      (* 3 *) LiteralExpr(NumVal(1)),
      (* 4 *) PrintStmt(3)
    >> ]

\* print 2 * 3 - 1; print 1 <= 1;
\* print 1 < "a";
ProgOperands ==
  [ source |-> <<
      "p", "r", "i", "n", "t", " ", "2", " ", "*", " ", "3", " ", "-", " ",
      "1", ";", " ", "p", "r", "i", "n", "t", " ", "1", " ", "<", "=", " ",
      "1", ";", "\n", "p", "r", "i", "n", "t", " ", "1", " ", "<", " ", "\"",
      "a", "\"", ";"
    >>,
    errors |-> <<>>,
    body |-> <<6, 10, 14>>,
    nodes |-> <<
      (*  1 *) LiteralExpr(NumVal(2)),
      (*  2 *) LiteralExpr(NumVal(3)),
      (*  3 *) BinaryExpr("STAR", 1, 2),
      (*  4 *) LiteralExpr(NumVal(1)),
      (*  5 *) BinaryExpr("MINUS", 3, 4),
      (*  6 *) PrintStmt(5),
      (*  7 *) LiteralExpr(NumVal(1)),
      (*  8 *) LiteralExpr(NumVal(1)),
      (*  9 *) BinaryExpr("LESS_EQUAL", 7, 8),
      (* 10 *) PrintStmt(9),
      (* 11 *) LiteralExpr(NumVal(1)),
      (* 12 *) LiteralExpr(StrVal("a")),
      (* 13 *) BinaryExpr("LESS", 11, 12),
      (* 14 *) PrintStmt(13)
    >> ]

\* print 1 + 2; print -"a";
ProgNegate ==
  [ source |-> <<
      "p", "r", "i", "n", "t", " ", "1", " ", "+", " ", "2", ";", " ", "p",
      "r", "i", "n", "t", " ", "-", "\"", "a", "\"", ";"
    >>,
    errors |-> <<>>,
    body |-> <<4, 7>>,
    nodes |-> <<
      (* 1 *) LiteralExpr(NumVal(1)),
      (* 2 *) LiteralExpr(NumVal(2)),
      (* 3 *) BinaryExpr("PLUS", 1, 2),
      (* 4 *) PrintStmt(3),
      (* 5 *) LiteralExpr(StrVal("a")),
      (* 6 *) UnaryExpr("MINUS", 5),
      (* 7 *) PrintStmt(6)
    >> ]

\* var d = 1; d = 2; print d;
\* u = 3;
ProgAssignUndefined ==
  [ source |-> <<
      "v", "a", "r", " ", "d", " ", "=", " ", "1", ";", " ", "d", " ", "=",
      " ", "2", ";", " ", "p", "r", "i", "n", "t", " ", "d", ";", "\n", "u",
      " ", "=", " ", "3", ";"
    >>,
    errors |-> <<>>,
    body |-> <<2, 5, 7, 10>>,
    nodes |-> <<
      (*  1 *) LiteralExpr(NumVal(1)),
      (*  2 *) VarStmt("d", 1),
      (*  3 *) LiteralExpr(NumVal(2)),
      (*  4 *) AssignExpr("d", 3),
      (*  5 *) ExpressionStmt(4),
      (*  6 *) VariableExpr("d"),
      (*  7 *) PrintStmt(6),
      (*  8 *) LiteralExpr(NumVal(3)),
      (*  9 *) AssignExpr("u", 8),
      (* 10 *) ExpressionStmt(9)
    >> ]

\* { var a = a = 1; print a; }
ProgAssignInit ==
  [ source |-> <<
      "{", " ", "v", "a", "r", " ", "a", " ", "=", " ", "a", " ", "=", " ",
      "1", ";", " ", "p", "r", "i", "n", "t", " ", "a", ";", " ", "}"
    >>,
    errors |-> <<>>,
    body |-> <<6>>,
    nodes |-> <<
      (* 1 *) LiteralExpr(NumVal(1)),
      (* 2 *) AssignExpr("a", 1),
      (* 3 *) VarStmt("a", 2),
      (* 4 *) VariableExpr("a"),
      (* 5 *) PrintStmt(4),
      (* 6 *) BlockStmt(<<3, 5>>)
    >> ]

\* class K { init(v) { if (v) return 5; if (v == nil) return; } }
\* var k = K(); print k.init(true) == k; print k.init(nil) == k; print k.init(false) == k;
ProgInitCall ==
  [ source |-> <<
      "c", "l", "a", "s", "s", " ", "K", " ", "{", " ", "i", "n", "i", "t",
      "(", "v", ")", " ", "{", " ", "i", "f", " ", "(", "v", ")", " ", "r",
      "e", "t", "u", "r", "n", " ", "5", ";", " ", "i", "f", " ", "(", "v",
      " ", "=", "=", " ", "n", "i", "l", ")", " ", "r", "e", "t", "u", "r",
      "n", ";", " ", "}", " ", "}", "\n", "v", "a", "r", " ", "k", " ", "=",
      " ", "K", "(", ")", ";", " ", "p", "r", "i", "n", "t", " ", "k", ".",
      "i", "n", "i", "t", "(", "t", "r", "u", "e", ")", " ", "=", "=", " ",
      "k", ";", " ", "p", "r", "i", "n", "t", " ", "k", ".", "i", "n", "i",
      "t", "(", "n", "i", "l", ")", " ", "=", "=", " ", "k", ";", " ", "p",
      "r", "i", "n", "t", " ", "k", ".", "i", "n", "i", "t", "(", "f", "a",
      "l", "s", "e", ")", " ", "=", "=", " ", "k", ";"
    >>,
    errors |-> <<>>,
    body |-> <<11, 14, 21, 28, 35>>,
    nodes |-> <<
      (*  1 *) VariableExpr("v"),
      (*  2 *) LiteralExpr(NumVal(5)),
      (*  3 *) ReturnStmt(2),
      (*  4 *) IfStmt(1, 3, 0),
      (*  5 *) VariableExpr("v"),
      (*  6 *) LiteralExpr(NilVal),
      (*  7 *) BinaryExpr("EQUAL_EQUAL", 5, 6),
      (*  8 *) ReturnStmt(0),
      (*  9 *) IfStmt(7, 8, 0),
      (* 10 *) FunctionStmt("init", <<"v">>, <<4, 9>>),
      (* 11 *) ClassStmt("K", 0, <<10>>),
      (* 12 *) VariableExpr("K"),
      (* 13 *) CallExpr(12, <<>>),
      (* 14 *) VarStmt("k", 13),
      (* 15 *) VariableExpr("k"),
      (* 16 *) GetExpr(15, "init"),
      (* 17 *) LiteralExpr(BoolVal(TRUE)),
      (* 18 *) CallExpr(16, <<17>>),
      (* 19 *) VariableExpr("k"),
      (* 20 *) BinaryExpr("EQUAL_EQUAL", 18, 19),
      (* 21 *) PrintStmt(20),
      (* 22 *) VariableExpr("k"),
      (* 23 *) GetExpr(22, "init"),
      (* 24 *) LiteralExpr(NilVal),
      (* 25 *) CallExpr(23, <<24>>),
      (* 26 *) VariableExpr("k"),
      (* 27 *) BinaryExpr("EQUAL_EQUAL", 25, 26),
      (* 28 *) PrintStmt(27),
      (* 29 *) VariableExpr("k"),
      (* 30 *) GetExpr(29, "init"),
      (* 31 *) LiteralExpr(BoolVal(FALSE)),
      (* 32 *) CallExpr(30, <<31>>),
      (* 33 *) VariableExpr("k"),
      (* 34 *) BinaryExpr("EQUAL_EQUAL", 32, 33),
      (* 35 *) PrintStmt(34)
    >> ]

\* class P { m() { return 1; } }
\* var p = P(); print p.m(); p.m = 2; print p.m; p.m = 3; print p.m;
\* p.__proto__ = 4; print p.__proto__;
ProgProperties ==
  [ source |-> <<
      "c", "l", "a", "s", "s", " ", "P", " ", "{", " ", "m", "(", ")", " ",
      "{", " ", "r", "e", "t", "u", "r", "n", " ", "1", ";", " ", "}", " ",
      "}", "\n", "v", "a", "r", " ", "p", " ", "=", " ", "P", "(", ")", ";",
      " ", "p", "r", "i", "n", "t", " ", "p", ".", "m", "(", ")", ";", " ",
      "p", ".", "m", " ", "=", " ", "2", ";", " ", "p", "r", "i", "n", "t",
      " ", "p", ".", "m", ";", " ", "p", ".", "m", " ", "=", " ", "3", ";",
      " ", "p", "r", "i", "n", "t", " ", "p", ".", "m", ";", "\n", "p", ".",
      "_", "_", "p", "r", "o", "t", "o", "_", "_", " ", "=", " ", "4", ";",
      " ", "p", "r", "i", "n", "t", " ", "p", ".", "_", "_", "p", "r", "o",
      "t", "o", "_", "_", ";"
    >>,
    errors |-> <<>>,
    body |-> <<4, 7, 11, 15, 18, 22, 25, 29, 32>>,
    nodes |-> <<
      (*  1 *) LiteralExpr(NumVal(1)),
      (*  2 *) ReturnStmt(1),
      (*  3 *) FunctionStmt("m", <<>>, <<2>>),
      (*  4 *) ClassStmt("P", 0, <<3>>),
      (*  5 *) VariableExpr("P"),
      (*  6 *) CallExpr(5, <<>>),
      (*  7 *) VarStmt("p", 6),
      (*  8 *) VariableExpr("p"),
      (*  9 *) GetExpr(8, "m"),
      (* 10 *) CallExpr(9, <<>>),
      (* 11 *) PrintStmt(10),
      (* 12 *) VariableExpr("p"),
      (* 13 *) LiteralExpr(NumVal(2)),
      (* 14 *) SetExpr(12, "m", 13),
      (* 15 *) ExpressionStmt(14),
      (* 16 *) VariableExpr("p"),
      (* 17 *) GetExpr(16, "m"),
      (* 18 *) PrintStmt(17),
      (* 19 *) VariableExpr("p"),
      (* 20 *) LiteralExpr(NumVal(3)),
      (* 21 *) SetExpr(19, "m", 20),
      (* 22 *) ExpressionStmt(21),
      (* 23 *) VariableExpr("p"),
      (* 24 *) GetExpr(23, "m"),
      (* 25 *) PrintStmt(24),
      (* 26 *) VariableExpr("p"),
      (* 27 *) LiteralExpr(NumVal(4)),
      (* 28 *) SetExpr(26, "__proto__", 27),
      (* 29 *) ExpressionStmt(28),
      (* 30 *) VariableExpr("p"),
      (* 31 *) GetExpr(30, "__proto__"),
      (* 32 *) PrintStmt(31)
    >> ]

\* class Q {}
\* print Q().x = 1;
\* print "s".length;
ProgNotInstance ==
  [ source |-> <<
      "c", "l", "a", "s", "s", " ", "Q", " ", "{", "}", "\n", "p", "r", "i",
      "n", "t", " ", "Q", "(", ")", ".", "x", " ", "=", " ", "1", ";", "\n",
      "p", "r", "i", "n", "t", " ", "\"", "s", "\"", ".", "l", "e", "n", "g",
      "t", "h", ";"
    >>,
    errors |-> <<>>,
    body |-> <<1, 6, 9>>,
    nodes |-> <<
      (* 1 *) ClassStmt("Q", 0, <<>>),
      (* 2 *) VariableExpr("Q"),
      (* 3 *) CallExpr(2, <<>>),
      (* 4 *) LiteralExpr(NumVal(1)),
      (* 5 *) SetExpr(3, "x", 4),
      (* 6 *) PrintStmt(5),
      (* 7 *) LiteralExpr(StrVal("s")),
      (* 8 *) GetExpr(7, "length"),
      (* 9 *) PrintStmt(8)
    >> ]

Programs ==
  << ProgReadme,
     ProgLexical,
     ProgClosure,
     ProgSuper,
     ProgCounter,
     ProgTopReturn,
     ProgShadow,
     ProgShadowFun,
     ProgThis,
     ProgNested,
     ProgControl,
     ProgFields,
     ProgFor,
     ProgInit,
     ProgInitArity,
     ProgPlusError,
     ProgCallNil,
     ProgClock,
     ProgMethodScope,
     ProgReturn,
     ProgSelfInit,
     ProgStaticErrors,
     ProgRecursion,
     ProgInitReturn,
     ProgInitBareReturn,
     ProgGlobalThenError,
     ProgReadG,
     ProgScanError,
     ProgParseError,
     ProgUnterminated,
     ProgStringLines,
     ProgGlobalSelfInit,
     ProgOperands,
     ProgNegate,
     ProgAssignUndefined,
     ProgAssignInit,
     ProgInitCall,
     ProgProperties,
     ProgNotInstance >>

\* the lines a session at the prompt is made of, as indexes of Programs
PromptLines == {21, 26, 27, 28, 29, 30}

VARIABLES
  mode,             \* how main() runs: "file" (runFile) or "prompt" (runPrompt)
  lineNo,           \* the number of the input run() was given: 1, 2, .. at the prompt
  ast,              \* the nodes of the statements parse() has returned, by identity
  pid,              \* the program run() was given, an index of Programs (0: see source)
  phase,            \* where run() is: "scan", "string" (Scanner.string's loop), "parse",
                    \* "synchronize" (the catch of Parser.declaration), "resolve",
                    \* "interpret", "done"; "prompt": before the next line
  source,           \* Scanner.source, as a sequence of characters
  start,            \* Scanner.start
  current,          \* Scanner.current
  line,             \* Scanner.line
  tokens,           \* Scanner.tokens
  pcurrent,         \* Parser.current
  pstatements,      \* the statements parse() has pushed so far, as trees
  hadError,         \* Error.ts: the module's hadError flag
  stderr,           \* the diagnostics written with console.error, in order
  scopes,           \* Resolver.scopes: a stack (top last) of maps name -> defined?
  currentFunction,  \* Resolver.currentFunction
  currentClass,     \* Resolver.currentClass
  rstack,           \* the resolver's pending calls and return points, top first
  locals,           \* Interpreter.locals: node -> depth
  visits,           \* per node, how often resolveStatement/resolveExpr/resolveFunction took it
  environment,      \* Interpreter.environment: the current frame, an index of envs
  envs,             \* the Environment objects created so far; envs[1] is globals
  funs,             \* the LoxFunction objects created so far
  classes,          \* the LoxClass objects created so far
  insts,            \* the LoxInstance objects created so far
  kont,             \* the interpreter's pending calls and return points, top first
  vals,             \* values of the sub-expressions evaluated so far, last first
  signal,           \* the exception in flight, or none
  stdout,           \* the values written with console.log, in order
  outcome           \* how run() ended: "" (not yet), "notParsed" and "notResolved" (it
                    \* returned at its first or second test of hadError), "completed",
                    \* "runtimeError", "uncaught"

vars == <<mode, lineNo, ast, pid, phase, source, start, current, line, tokens, pcurrent, pstatements,
          hadError, stderr,
          scopes, currentFunction, currentClass, rstack, locals, visits, environment, envs,
          funs, classes, insts, kont, vals, signal, stdout, outcome>>

driverVars == <<mode, lineNo, ast>>
scannerVars == <<source, start, current, line, tokens>>
parserVars == <<pcurrent, pstatements>>

resolverVars == <<scopes, currentFunction, currentClass, rstack, locals, visits>>
interpreterVars == <<environment, envs, funs, classes, insts, kont, vals, signal, stdout, outcome>>

\* Every node of every program is one object: its identity is its place in
\* Nodes, the node tables of the programs one after the other.  The nodes of
\* program p follow the Base(p) nodes of the programs before it, and their
\* references to each other are moved by as much.
RECURSIVE Base(_)
Base(p) == IF p <= 1 THEN 0 ELSE Base(p - 1) + Len(Programs[p - 1].nodes)
Moved(list, by) == [i \in 1..Len(list) |-> list[i] + by]
MovedNode(node, by) ==
  [node EXCEPT !.a = IF @ = 0 THEN 0 ELSE @ + by,
               !.b = IF @ = 0 THEN 0 ELSE @ + by,
               !.c = IF @ = 0 THEN 0 ELSE @ + by,
               !.list = Moved(@, by)]
RECURSIVE NodesUpTo(_)
NodesUpTo(p) ==
  IF p = 0 THEN <<>>
  ELSE NodesUpTo(p - 1) \o [i \in 1..Len(Programs[p].nodes) |-> MovedNode(Programs[p].nodes[i], Base(p))]
Nodes == NodesUpTo(Len(Programs))
\* node n of the statements parse() has returned so far
N(n) == ast[n]
\* the nodes of program p, and the statement list parse() returns for it
ProgramNodes(p) == (Base(p) + 1)..(Base(p) + Len(Programs[p].nodes))
Body(p) == Moved(Programs[p].body, Base(p))

\* a map (a JS Map or object used as one) with key k set to v
MapSet(m, k, v) == [x \in (DOMAIN m) \cup {k} |-> IF x = k THEN v ELSE m[x]]
EmptyMap == [x \in {} |-> 0]
\* o[k] = v on an object of the host used as a map: __proto__ is the accessor
\* of Object.prototype, and the store gives the object no property of its own
ObjectSet(o, k, v) == IF k = "__proto__" THEN o ELSE MapSet(o, k, v)

(***************************************************************************)
(* Error.ts                                                                *)
(***************************************************************************)
\* tokenError -> report, once per message of errs: the diagnostic is written and
\* hadError is set (the line and the token of the message are not modelled)
Report(errs) ==
  /\ stderr' = stderr \o errs
  /\ hadError' = (hadError \/ Len(errs) > 0)

(***************************************************************************)
(* Scanner.ts                                                              *)
(***************************************************************************)
\* error(line, message) of Error.ts: report(line, '', message) writes the
\* diagnostic and sets hadError
error(ln, message) ==
  /\ stderr' = Append(stderr, "[line " \o ToString(ln) \o "] Error : " \o message)
  /\ hadError' = TRUE

Digits == <<"0", "1", "2", "3", "4", "5", "6", "7", "8", "9">>
Letters ==
  {"a", "b", "c", "d", "e", "f", "g", "h", "i", "j", "k", "l", "m", "n", "o", "p", "q",
   "r", "s", "t", "u", "v", "w", "x", "y", "z", "A", "B", "C", "D", "E", "F", "G", "H",
   "I", "J", "K", "L", "M", "N", "O", "P", "Q", "R", "S", "T", "U", "V", "W", "X", "Y",
   "Z"}
isDigit(c) == \E i \in 1..10 : Digits[i] = c
isAlpha(c) == c \in Letters \/ c = "_"
isAlphaNumeric(c) == isAlpha(c) \/ isDigit(c)

keywords ==
  {"and", "class", "else", "false", "for", "fun", "if", "nil", "or", "print", "return",
   "super", "this", "true", "var", "while"}
\* the TokenType of a keyword
KeywordType(text) ==
  CASE text = "and" -> "AND" [] text = "class" -> "CLASS" [] text = "else" -> "ELSE"
    [] text = "false" -> "FALSE" [] text = "for" -> "FOR" [] text = "fun" -> "FUN"
    [] text = "if" -> "IF" [] text = "nil" -> "NIL" [] text = "or" -> "OR"
    [] text = "print" -> "PRINT" [] text = "return" -> "RETURN" [] text = "super" -> "SUPER"
    [] text = "this" -> "THIS" [] text = "true" -> "TRUE" [] text = "var" -> "VAR"
    [] text = "while" -> "WHILE"

\* the character peek() and peekNext() return at the end of the source
NUL == "\\0"
\* String.charAt: the empty string outside the source (positions count from 0)
charAt(src, i) == IF i >= 0 /\ i < Len(src) THEN src[i + 1] ELSE ""
\* String.substring(from, to): both ends are brought into 0..length, and
\* exchanged when from > to
RECURSIVE Joined(_, _, _)
Joined(src, from, to) == IF from >= to THEN "" ELSE src[from + 1] \o Joined(src, from + 1, to)
Clamped(src, i) == IF i < 0 THEN 0 ELSE IF i > Len(src) THEN Len(src) ELSE i
substring(src, from, to) ==
  LET a == Clamped(src, from)
      b == Clamped(src, to)
  IN IF a <= b THEN Joined(src, a, b) ELSE Joined(src, b, a)

isAtEnd == current >= Len(source)
peekAt(src, i) == IF i >= Len(src) THEN NUL ELSE charAt(src, i)
peek == peekAt(source, current)

Token(type, lexeme, literal, ln) == [type |-> type, lexeme |-> lexeme, literal |-> literal, line |-> ln]
\* addTokenWithLiteral, the token ending before position end: its lexeme is
\* source.substring(start, current), its line the line the scanner is at
addTokenWithLiteral(type, literal, from, end, ln) ==
  tokens' = Append(tokens, Token(type, substring(source, from, end), literal, ln))
addToken(type, from, end, ln) == addTokenWithLiteral(type, NilVal, from, end, ln)

\* the scanner is in the loop of scanTokens, before a character
Scanning == phase = "scan" /\ ~isAtEnd

SingleType(c) ==
  CASE c = "(" -> "LEFT_PAREN" [] c = ")" -> "RIGHT_PAREN" [] c = "{" -> "LEFT_BRACE"
    [] c = "}" -> "RIGHT_BRACE" [] c = "," -> "COMMA" [] c = "." -> "DOT"
    [] c = "-" -> "MINUS" [] c = "+" -> "PLUS" [] c = ";" -> "SEMICOLON" [] c = "*" -> "STAR"
\* scanToken, the cases ( ) { } , . - + ; *
ScanSingle ==
  /\ Scanning
  /\ charAt(source, current) \in {"(", ")", "{", "}", ",", ".", "-", "+", ";", "*"}
  /\ start' = current
  /\ current' = current + 1
  /\ addToken(SingleType(charAt(source, current)), current, current + 1, line)
  /\ UNCHANGED <<source, line, phase, hadError, stderr>>
  /\ UNCHANGED <<driverVars, parserVars, pid, resolverVars, interpreterVars>>

PlainType(c) ==
  CASE c = "!" -> "BANG" [] c = "=" -> "EQUAL" [] c = "<" -> "LESS" [] c = ">" -> "GREATER"
\* scanToken, the cases ! = < >, each with match('=')
ScanOperator ==
  /\ Scanning
  /\ charAt(source, current) \in {"!", "=", "<", ">"}
  /\ LET c == charAt(source, current)
         matched == current + 1 < Len(source) /\ charAt(source, current + 1) = "="
         end == IF matched THEN current + 2 ELSE current + 1
     IN /\ start' = current
        /\ current' = end
        /\ addToken(IF matched THEN PlainType(c) \o "_EQUAL" ELSE PlainType(c), current, end, line)
  /\ UNCHANGED <<source, line, phase, hadError, stderr>>
  /\ UNCHANGED <<driverVars, parserVars, pid, resolverVars, interpreterVars>>

\* where the loop of a comment stops: at the newline or at the end
RECURSIVE CommentEnd(_, _)
CommentEnd(src, i) ==
  IF peekAt(src, i) # "\n" /\ ~(i >= Len(src)) THEN CommentEnd(src, i + 1) ELSE i
\* scanToken, the case /: a comment up to the end of the line, or SLASH
ScanSlash ==
  /\ Scanning
  /\ charAt(source, current) = "/"
  /\ start' = current
  /\ IF current + 1 < Len(source) /\ charAt(source, current + 1) = "/"
     THEN /\ current' = CommentEnd(source, current + 2)
          /\ tokens' = tokens
     ELSE /\ current' = current + 1
          /\ addToken("SLASH", current, current + 1, line)
  /\ UNCHANGED <<source, line, phase, hadError, stderr>>
  /\ UNCHANGED <<driverVars, parserVars, pid, resolverVars, interpreterVars>>

\* scanToken, the cases ' ', '\r', '\t'
ScanWhitespace ==
  /\ Scanning
  /\ charAt(source, current) \in {" ", "\r", "\t"}
  /\ start' = current
  /\ current' = current + 1
  /\ UNCHANGED <<source, line, tokens, phase, hadError, stderr>>
  /\ UNCHANGED <<driverVars, parserVars, pid, resolverVars, interpreterVars>>

\* a newline case that forgets the line counter
ScanNewlineUncounted ==
  /\ Scanning
  /\ charAt(source, current) = "\n"
  /\ start' = current
  /\ current' = current + 1
  /\ UNCHANGED <<source, line, tokens, phase, hadError, stderr>>
  /\ UNCHANGED <<driverVars, parserVars, pid, resolverVars, interpreterVars>>

\* scanToken, the case '\n'
ScanNewline ==
  /\ Scanning
  /\ charAt(source, current) = "\n"
  /\ start' = current
  /\ current' = current + 1
  /\ line' = line + 1
  /\ UNCHANGED <<source, tokens, phase, hadError, stderr>>
  /\ UNCHANGED <<driverVars, parserVars, pid, resolverVars, interpreterVars>>

\* where the loops `while (isDigit(peek())) advance()` and
\* `while (isAlphaNumeric(peek())) advance()` stop
RECURSIVE DigitsEnd(_, _)
DigitsEnd(src, i) == IF isDigit(peekAt(src, i)) THEN DigitsEnd(src, i + 1) ELSE i
RECURSIVE AlphaNumericEnd(_, _)
AlphaNumericEnd(src, i) == IF isAlphaNumeric(peekAt(src, i)) THEN AlphaNumericEnd(src, i + 1) ELSE i
peekNextAt(src, i) == IF i + 1 >= Len(src) THEN NUL ELSE charAt(src, i + 1)

\* parseFloat of digits with an optional fraction: the integer, or
\* NotAnInteger when a digit of the fraction is not 0
DigitValue(c) == (CHOOSE i \in 1..10 : Digits[i] = c) - 1
RECURSIVE WholeValue(_, _, _, _)
WholeValue(src, from, to, acc) ==
  IF from >= to THEN acc ELSE WholeValue(src, from + 1, to, 10 * acc + DigitValue(src[from + 1]))
parseFloat(src, from, dot, to) ==
  IF \A i \in (dot + 1)..(to - 1) : src[i + 1] = "0"
  THEN NumVal(WholeValue(src, from, dot, 0))
  ELSE NotAnInteger

\* scanToken, the default case with a digit: number()
ScanNumber ==
  /\ Scanning
  /\ isDigit(charAt(source, current))
  /\ LET whole == DigitsEnd(source, current + 1)
         fraction == peekAt(source, whole) = "." /\ isDigit(peekNextAt(source, whole))
         end == IF fraction THEN DigitsEnd(source, whole + 1) ELSE whole
     IN /\ start' = current
        /\ current' = end
        /\ addTokenWithLiteral("NUMBER", parseFloat(source, current, whole, end), current, end, line)
  /\ UNCHANGED <<source, line, phase, hadError, stderr>>
  /\ UNCHANGED <<driverVars, parserVars, pid, resolverVars, interpreterVars>>

\* scanToken, the default case with a letter or _: identifier()
ScanIdentifier ==
  /\ Scanning
  /\ isAlpha(charAt(source, current))
  /\ LET end == AlphaNumericEnd(source, current + 1)
         text == substring(source, current, end)
     IN /\ start' = current
        /\ current' = end
        /\ addToken(IF text \in keywords THEN KeywordType(text) ELSE "IDENTIFIER", current, end, line)
  /\ UNCHANGED <<source, line, phase, hadError, stderr>>
  /\ UNCHANGED <<driverVars, parserVars, pid, resolverVars, interpreterVars>>

\* scanToken, the default case with any other character
ScanUnexpected ==
  /\ Scanning
  /\ LET c == charAt(source, current) IN
       /\ c \notin {"(", ")", "{", "}", ",", ".", "-", "+", ";", "*", "!", "=", "<", ">", "/",
                    " ", "\r", "\t", "\n", "\""}
       /\ ~isDigit(c)
       /\ ~isAlpha(c)
  /\ start' = current
  /\ current' = current + 1
  /\ error(line, "Unexpected character")
  /\ UNCHANGED <<source, line, tokens, phase>>
  /\ UNCHANGED <<driverVars, parserVars, pid, resolverVars, interpreterVars>>

\* scanToken, the case '"': string() is entered
ScanString ==
  /\ Scanning
  /\ charAt(source, current) = "\""
  /\ start' = current
  /\ current' = current + 1
  /\ phase' = "string"
  /\ UNCHANGED <<source, line, tokens, hadError, stderr>>
  /\ UNCHANGED <<driverVars, parserVars, pid, resolverVars, interpreterVars>>

\* string(), one turn of `while (peek() != '"')`: the loop does not ask
\* isAtEnd(), and past the end of the source peek() is NUL, so current goes
\* on growing there (the model follows it MaxOverrun positions past the end)
ScanStringAdvance ==
  /\ phase = "string"
  /\ peek # "\""
  /\ line' = IF peek = "\n" THEN line + 1 ELSE line
  /\ current' = IF current < Len(source) + MaxOverrun THEN current + 1 ELSE current
  /\ UNCHANGED <<source, start, tokens, phase, hadError, stderr>>
  /\ UNCHANGED <<driverVars, parserVars, pid, resolverVars, interpreterVars>>

\* string() after its loop: the error at the end of the source, else the
\* closing quote is taken and the STRING token added
ScanStringEnd ==
  /\ phase = "string"
  /\ peek = "\""
  /\ IF isAtEnd
     THEN /\ error(line, "Unterminated string.")
          /\ UNCHANGED <<current, tokens>>
     ELSE /\ current' = current + 1
          /\ addTokenWithLiteral("STRING", StrVal(substring(source, start + 1, current)),
                                 start, current + 1, line)
          /\ UNCHANGED <<hadError, stderr>>
  /\ phase' = "scan"
  /\ UNCHANGED <<source, start, line>>
  /\ UNCHANGED <<driverVars, parserVars, pid, resolverVars, interpreterVars>>

\* scanTokens after its loop: the EOF token, and the tokens go to the parser
ScanTokensEnd ==
  /\ phase = "scan"
  /\ isAtEnd
  /\ tokens' = Append(tokens, Token("EOF", "", NilVal, line))
  /\ phase' = "parse"
  /\ UNCHANGED <<source, start, current, line, hadError, stderr>>
  /\ UNCHANGED <<driverVars, parserVars, pid, resolverVars, interpreterVars>>

ScanToken ==
  \/ ScanSingle
  \/ ScanOperator
  \/ ScanSlash
  \/ ScanWhitespace
  \/ ScanNewline
  \/ ScanNumber
  \/ ScanIdentifier
  \/ ScanUnexpected
  \/ ScanString
  \/ ScanStringAdvance
  \/ ScanStringEnd
(***************************************************************************)
(* Parser.ts: the expression grammar and the loop of parse()               *)
(***************************************************************************)
\* tokenError of Error.ts, the diagnostic report() writes for a token
tokenError(token, message) ==
  "[line " \o ToString(token.line) \o "] Error "
    \o (IF token.type = "EOF" THEN " at end" ELSE " at '" \o token.lexeme \o "'")
    \o ": " \o message

\* What a parsing method did from the position it was called at: the node (or
\* token) it returned, the parser's current after it, the diagnostics it
\* reported, and whether it ended by the throw of an error
Parsed(expr, pos, errs) == [expr |-> expr, pos |-> pos, errs |-> errs, thrown |-> FALSE]
Thrown(pos, errs) == [expr |-> [type |-> "none"], pos |-> pos, errs |-> errs, thrown |-> TRUE]
\* a method called after another one: what was reported before stays reported
After(first, second) == [second EXCEPT !.errs = first.errs \o @]

\* Parser.peek, isAtEnd and check at position pos (Parser.current)
parserPeek(toks, pos) == toks[pos + 1]
parserIsAtEnd(toks, pos) == parserPeek(toks, pos).type = "EOF"
check(toks, pos, type) == ~parserIsAtEnd(toks, pos) /\ parserPeek(toks, pos).type = type
\* match(...types): whether it advances
matches(toks, pos, types) == \E type \in types : check(toks, pos, type)

consume(toks, pos, type, message) ==
  IF check(toks, pos, type) THEN Parsed(parserPeek(toks, pos), pos + 1, <<>>)
  ELSE Thrown(pos, <<tokenError(parserPeek(toks, pos), message)>>)

\* the value null of the host, where a node is expected
null == [type |-> "none"]

\* synchronize(): advance(), then skip to after a semicolon or to before a
\* keyword that starts a statement
RECURSIVE synchronizeLoop(_, _)
synchronizeLoop(toks, pos) ==
  IF parserIsAtEnd(toks, pos) THEN pos
  ELSE IF toks[pos].type = "SEMICOLON" THEN pos
  ELSE IF parserPeek(toks, pos).type \in {"CLASS", "FUN", "VAR", "FOR", "IF", "WHILE", "PRINT", "RETURN"}
  THEN pos
  ELSE synchronizeLoop(toks, pos + 1)
\* a synchronize() that is its first advance() alone
synchronizeAdvanceOnly(toks, pos) == IF parserIsAtEnd(toks, pos) THEN pos ELSE pos + 1
synchronize(toks, pos) ==
  synchronizeLoop(toks, IF parserIsAtEnd(toks, pos) THEN pos ELSE pos + 1)

\* an assignment() that throws the error of an invalid target
assignmentThrows(expr, equals, value) ==
  IF expr.expr.type = "VariableExpr"
  THEN Parsed([type |-> "AssignExpr", name |-> expr.expr.name, value |-> value.expr],
              value.pos, expr.errs \o value.errs)
  ELSE IF expr.expr.type = "GetExpr"
  THEN Parsed([type |-> "SetExpr", object |-> expr.expr.object, name |-> expr.expr.name,
               value |-> value.expr],
              value.pos, expr.errs \o value.errs)
  ELSE Thrown(value.pos,
              expr.errs \o value.errs \o <<tokenError(equals, "Invalid assignment target.")>>)

\* assignment() once its target expr, the token equals and its value are
\* parsed: the rewriting of the target, or the error, which is not thrown
assignment(expr, equals, value) ==
  IF expr.expr.type = "VariableExpr"
  THEN Parsed([type |-> "AssignExpr", name |-> expr.expr.name, value |-> value.expr],
              value.pos, expr.errs \o value.errs)
  ELSE IF expr.expr.type = "GetExpr"
  THEN Parsed([type |-> "SetExpr", object |-> expr.expr.object, name |-> expr.expr.name,
               value |-> value.expr],
              value.pos, expr.errs \o value.errs)
  ELSE Parsed(expr.expr, value.pos,
              expr.errs \o value.errs \o <<tokenError(equals, "Invalid assignment target.")>>)

\* a for statement that keeps its initializer beside the loop, in one block
\* with the body
forLoopFlat(initializer, condition, increment, body) ==
  [type |-> "WhileStmt",
   condition |-> IF condition.type = "none"
                 THEN [type |-> "LiteralExpr", value |-> BoolVal(TRUE)] ELSE condition,
   body |-> [type |-> "BlockStmt",
             statements |-> <<initializer, body,
                              [type |-> "ExpressionStmt", expression |-> increment]>>]]
\* forStatement() once its clauses and its body are parsed: the statement it
\* returns; a clause that is absent is null
forLoop(initializer, condition, increment, body) ==
  LET stepped == IF increment.type # "none"
                 THEN [type |-> "BlockStmt",
                       statements |-> <<body, [type |-> "ExpressionStmt",
                                               expression |-> increment]>>]
                 ELSE body
      loop == [type |-> "WhileStmt",
               condition |-> IF condition.type = "none"
                             THEN [type |-> "LiteralExpr", value |-> BoolVal(TRUE)]
                             ELSE condition,
               body |-> stepped]
  IN IF initializer.type # "none"
     THEN [type |-> "BlockStmt", statements |-> <<initializer, loop>>]
     ELSE loop

\* The operators of the six methods of the binary operators, from `or`
\* (level 1) to `multiplication` (level 6)
Operators(level) ==
  CASE level = 1 -> {"OR"}
    [] level = 2 -> {"AND"}
    [] level = 3 -> {"BANG_EQUAL", "EQUAL_EQUAL"}
    [] level = 4 -> {"GREATER", "GREATER_EQUAL", "LESS", "LESS_EQUAL"}
    [] level = 5 -> {"MINUS", "PLUS"}
    [] level = 6 -> {"SLASH", "STAR"}

\* The methods of the expression grammar, which call each other: method name
\* called with the parser's current at pos.  "binary" with its level stands for
\* or, and, equality, comparison, addition and multiplication, which have one
\* shape: an operand of the next level, then `while (match(operators))` with
\* another operand.  The loops ("binaryLoop", "callLoop", "arguments") carry
\* in r what the method has got so far.
RECURSIVE parserMethod(_, _, _, _, _)
parserMethod(name, level, toks, pos, r) ==
  CASE name = "assignment" ->
         LET expr == parserMethod("binary", 1, toks, pos, r)
             equals == parserPeek(toks, expr.pos)
             value == parserMethod("assignment", 0, toks, expr.pos + 1, r)
         IN IF expr.thrown THEN expr
            ELSE IF check(toks, expr.pos, "EQUAL")
            THEN IF value.thrown THEN After(expr, value) ELSE assignment(expr, equals, value)
            ELSE expr
    [] name = "binary" ->
         \* the method of this level calls the method of the next level first,
         \* down to unary(), and each loop takes what the level below returned
         LET u == parserMethod("unary", 0, toks, pos, r)
             b6 == parserMethod("binaryLoop", 6, toks, pos, u)
             b5 == parserMethod("binaryLoop", 5, toks, pos, b6)
             b4 == parserMethod("binaryLoop", 4, toks, pos, b5)
             b3 == parserMethod("binaryLoop", 3, toks, pos, b4)
             b2 == parserMethod("binaryLoop", 2, toks, pos, b3)
             b1 == parserMethod("binaryLoop", 1, toks, pos, b2)
         IN IF u.thrown THEN u
            ELSE IF level = 6 \/ b6.thrown THEN b6
            ELSE IF level = 5 \/ b5.thrown THEN b5
            ELSE IF level = 4 \/ b4.thrown THEN b4
            ELSE IF level = 3 \/ b3.thrown THEN b3
            ELSE IF level = 2 \/ b2.thrown THEN b2
            ELSE b1
    [] name = "binaryLoop" ->
         IF r.thrown THEN r
         ELSE IF matches(toks, r.pos, Operators(level))
         THEN LET right == IF level = 6 THEN parserMethod("unary", 0, toks, r.pos + 1, r)
                           ELSE parserMethod("binary", level + 1, toks, r.pos + 1, r)
              IN IF right.thrown THEN After(r, right)
                 ELSE parserMethod("binaryLoop", level, toks, pos,
                        Parsed([type |-> IF level <= 2 THEN "LogicalExpr" ELSE "BinaryExpr",
                                left |-> r.expr, operator |-> parserPeek(toks, r.pos),
                                right |-> right.expr],
                               right.pos, r.errs \o right.errs))
         ELSE r
    [] name = "unary" ->
         IF matches(toks, pos, {"BANG", "MINUS"})
         THEN LET right == parserMethod("unary", 0, toks, pos + 1, r)
              IN IF right.thrown THEN right
                 ELSE Parsed([type |-> "UnaryExpr", operator |-> parserPeek(toks, pos),
                              right |-> right.expr], right.pos, right.errs)
         ELSE LET expr == parserMethod("primary", 0, toks, pos, r)
              IN IF expr.thrown THEN expr ELSE parserMethod("callLoop", 0, toks, pos, expr)
    [] name = "callLoop" ->
         \* call(), the loop `while (true)` after the primary expression r
         IF r.thrown THEN r
         ELSE IF check(toks, r.pos, "LEFT_PAREN")
         THEN parserMethod("callLoop", 0, toks, pos,
                     After(r, parserMethod("finishCall", 0, toks, r.pos + 1, r)))
         ELSE IF check(toks, r.pos, "DOT")
         THEN LET name_ == consume(toks, r.pos + 1, "IDENTIFIER", "Expect property name after '.'.")
              IN IF name_.thrown THEN After(r, name_)
                 ELSE parserMethod("callLoop", 0, toks, pos,
                        Parsed([type |-> "GetExpr", object |-> r.expr, name |-> name_.expr],
                               name_.pos, r.errs))
         ELSE r
    [] name = "finishCall" ->
         \* finishCall(callee) with callee = r.expr
         LET args == IF check(toks, pos, "RIGHT_PAREN") THEN Parsed(<<>>, pos, <<>>)
                     ELSE parserMethod("arguments", 0, toks, pos, Parsed(<<>>, pos, <<>>))
             paren == consume(toks, args.pos, "RIGHT_PAREN", "Expect ')' after arguments.")
         IN IF args.thrown THEN args
            ELSE IF paren.thrown THEN After(args, paren)
            ELSE Parsed([type |-> "CallExpr", callee |-> r.expr, paren |-> paren.expr,
                         arguments |-> args.expr], paren.pos, args.errs)
    [] name = "arguments" ->
         \* finishCall, one turn of its do-while loop; r.expr is args
         LET tooMany == IF Len(r.expr) >= 255
                        THEN <<tokenError(parserPeek(toks, pos),
                                          "Cannot have more than 255 arguments.")>>
                        ELSE <<>>
             arg == parserMethod("assignment", 0, toks, pos, r)
             reported == r.errs \o tooMany \o arg.errs
         IN IF arg.thrown THEN Thrown(arg.pos, reported)
            ELSE IF check(toks, arg.pos, "COMMA")
            THEN parserMethod("arguments", 0, toks, arg.pos + 1,
                        Parsed(Append(r.expr, arg.expr), arg.pos + 1, reported))
            ELSE Parsed(Append(r.expr, arg.expr), arg.pos, reported)
    [] name = "declaration" ->
         \* declaration(): its catch calls synchronize() and returns null
         LET result == parserMethod("declarationTry", 0, toks, pos, r)
         IN IF result.thrown THEN Parsed(null, synchronize(toks, result.pos), result.errs)
            ELSE result
    [] name = "declarationTry" ->
         \* declaration(), the body of its try
         IF check(toks, pos, "CLASS") THEN parserMethod("classDeclaration", 0, toks, pos + 1, r)
         ELSE IF check(toks, pos, "FUN") THEN parserMethod("functionDeclaration", 0, toks, pos + 1, r)
         ELSE IF check(toks, pos, "VAR") THEN parserMethod("varDeclaration", 0, toks, pos + 1, r)
         ELSE parserMethod("statement", 0, toks, pos, r)
    [] name = "classDeclaration" ->
         LET name_ == consume(toks, pos, "IDENTIFIER", "Expect class name.")
             less == check(toks, name_.pos, "LESS")
             super == IF less
                      THEN consume(toks, name_.pos + 1, "IDENTIFIER", "Expect superclass name.")
                      ELSE Parsed(null, name_.pos, <<>>)
             superclass == IF less THEN [type |-> "VariableExpr", name |-> super.expr] ELSE null
             brace == consume(toks, super.pos, "LEFT_BRACE", "Expect '{' before class body.")
             methods == parserMethod("methods", 0, toks, brace.pos, Parsed(<<>>, brace.pos, <<>>))
             close == consume(toks, methods.pos, "RIGHT_BRACE", "Expect '}' after class body.")
         IN IF name_.thrown THEN name_
            ELSE IF super.thrown THEN super
            ELSE IF brace.thrown THEN brace
            ELSE IF methods.thrown THEN methods
            ELSE IF close.thrown THEN After(methods, close)
            ELSE Parsed([type |-> "ClassStmt", methods |-> methods.expr, name |-> name_.expr,
                         superclass |-> superclass], close.pos, methods.errs)
    [] name = "methods" ->
         \* classDeclaration, its loop over the methods; r.expr is methods
         IF ~check(toks, r.pos, "RIGHT_BRACE") /\ ~parserIsAtEnd(toks, r.pos)
         THEN LET method == parserMethod("functionDeclaration", 1, toks, r.pos, r)
              IN IF method.thrown THEN After(r, method)
                 ELSE parserMethod("methods", 0, toks, pos,
                        Parsed(Append(r.expr, method.expr), method.pos, r.errs \o method.errs))
         ELSE r
    [] name = "functionDeclaration" ->
         \* functionDeclaration(kind): level 0 for "function", 1 for "method"
         LET kind == IF level = 1 THEN "method" ELSE "function"
             name_ == consume(toks, pos, "IDENTIFIER", "Expect " \o kind \o " name.")
             paren == consume(toks, name_.pos, "LEFT_PAREN", "Expect '(' after " \o kind \o " name.")
             parameters == IF check(toks, paren.pos, "RIGHT_PAREN") THEN Parsed(<<>>, paren.pos, <<>>)
                           ELSE parserMethod("parameters", 0, toks, paren.pos,
                                             Parsed(<<>>, paren.pos, <<>>))
             close == consume(toks, parameters.pos, "RIGHT_PAREN", "Expect ')' after parameters.")
             brace == consume(toks, close.pos, "LEFT_BRACE", "Expect '{' before " \o kind \o " body.")
             body == parserMethod("block", 0, toks, brace.pos, r)
         IN IF name_.thrown THEN name_
            ELSE IF paren.thrown THEN paren
            ELSE IF parameters.thrown THEN parameters
            ELSE IF close.thrown THEN After(parameters, close)
            ELSE IF brace.thrown THEN After(parameters, brace)
            ELSE IF body.thrown THEN After(parameters, body)
            ELSE Parsed([type |-> "FunctionStmt", name |-> name_.expr, params |-> parameters.expr,
                         body |-> body.expr], body.pos, parameters.errs \o body.errs)
    [] name = "parameters" ->
         \* functionDeclaration, one turn of its do-while loop; r.expr is parameters
         LET tooMany == IF Len(r.expr) >= 255
                        THEN <<tokenError(parserPeek(toks, pos),
                                          "cannot have more than 255 parameters")>>
                        ELSE <<>>
             param == consume(toks, pos, "IDENTIFIER", "Expect parameter name.")
             reported == r.errs \o tooMany \o param.errs
         IN IF param.thrown THEN Thrown(param.pos, reported)
            ELSE IF check(toks, param.pos, "COMMA")
            THEN parserMethod("parameters", 0, toks, param.pos + 1,
                        Parsed(Append(r.expr, param.expr), param.pos + 1, reported))
            ELSE Parsed(Append(r.expr, param.expr), param.pos, reported)
    [] name = "varDeclaration" ->
         LET name_ == consume(toks, pos, "IDENTIFIER", "Expect variable name.")
             initializer == IF check(toks, name_.pos, "EQUAL")
                            THEN parserMethod("assignment", 0, toks, name_.pos + 1, r)
                            ELSE Parsed(null, name_.pos, <<>>)
             semicolon == consume(toks, initializer.pos, "SEMICOLON",
                                  "Expect ';' after variable declaration.")
         IN IF name_.thrown THEN name_
            ELSE IF initializer.thrown THEN initializer
            ELSE IF semicolon.thrown THEN After(initializer, semicolon)
            ELSE Parsed([type |-> "VarStmt", name |-> name_.expr,
                         initializer |-> initializer.expr], semicolon.pos, initializer.errs)
    [] name = "statement" ->
         IF check(toks, pos, "FOR") THEN parserMethod("forStatement", 0, toks, pos + 1, r)
         ELSE IF check(toks, pos, "IF") THEN parserMethod("ifStatement", 0, toks, pos + 1, r)
         ELSE IF check(toks, pos, "PRINT") THEN parserMethod("printStatement", 0, toks, pos + 1, r)
         ELSE IF check(toks, pos, "RETURN") THEN parserMethod("returnStatement", 0, toks, pos + 1, r)
         ELSE IF check(toks, pos, "WHILE") THEN parserMethod("whileStatement", 0, toks, pos + 1, r)
         ELSE IF check(toks, pos, "LEFT_BRACE")
         THEN LET statements == parserMethod("block", 0, toks, pos + 1, r)
              IN IF statements.thrown THEN statements
                 ELSE Parsed([type |-> "BlockStmt", statements |-> statements.expr],
                             statements.pos, statements.errs)
         ELSE parserMethod("expressionStatement", 0, toks, pos, r)
    [] name = "forStatement" ->
         LET paren == consume(toks, pos, "LEFT_PAREN", "Expect '(' after 'for'.")
             initializer ==
               IF check(toks, paren.pos, "SEMICOLON") THEN Parsed(null, paren.pos + 1, <<>>)
               ELSE IF check(toks, paren.pos, "VAR")
               THEN parserMethod("varDeclaration", 0, toks, paren.pos + 1, r)
               ELSE parserMethod("expressionStatement", 0, toks, paren.pos, r)
             condition == IF ~check(toks, initializer.pos, "SEMICOLON")
                          THEN After(initializer, parserMethod("assignment", 0, toks, initializer.pos, r))
                          ELSE Parsed(null, initializer.pos, initializer.errs)
             semicolon == consume(toks, condition.pos, "SEMICOLON",
                                  "Exprect ';' after loop condition.")
             increment == IF ~check(toks, semicolon.pos, "RIGHT_PAREN")
                          THEN After(condition, parserMethod("assignment", 0, toks, semicolon.pos, r))
                          ELSE Parsed(null, semicolon.pos, condition.errs)
             close == consume(toks, increment.pos, "RIGHT_PAREN", "Expect ')' after for clauses.")
             body == After(increment, parserMethod("statement", 0, toks, close.pos, r))
         IN IF paren.thrown THEN paren
            ELSE IF initializer.thrown THEN initializer
            ELSE IF condition.thrown THEN condition
            ELSE IF semicolon.thrown THEN After(condition, semicolon)
            ELSE IF increment.thrown THEN increment
            ELSE IF close.thrown THEN After(increment, close)
            ELSE IF body.thrown THEN body
            ELSE Parsed(forLoop(initializer.expr, condition.expr, increment.expr, body.expr),
                        body.pos, body.errs)
    [] name = "ifStatement" ->
         LET paren == consume(toks, pos, "LEFT_PAREN", "Expect '(' after if.")
             condition == parserMethod("assignment", 0, toks, paren.pos, r)
             close == consume(toks, condition.pos, "RIGHT_PAREN", "Expect ')' after condition.")
             thenBranch == After(condition, parserMethod("statement", 0, toks, close.pos, r))
             elseBranch == IF check(toks, thenBranch.pos, "ELSE")
                           THEN After(thenBranch,
                                      parserMethod("statement", 0, toks, thenBranch.pos + 1, r))
                           ELSE Parsed(null, thenBranch.pos, thenBranch.errs)
         IN IF paren.thrown THEN paren
            ELSE IF condition.thrown THEN condition
            ELSE IF close.thrown THEN After(condition, close)
            ELSE IF thenBranch.thrown THEN thenBranch
            ELSE IF elseBranch.thrown THEN elseBranch
            ELSE Parsed([type |-> "IfStmt", condition |-> condition.expr,
                         thenBranch |-> thenBranch.expr, elseBranch |-> elseBranch.expr],
                        elseBranch.pos, elseBranch.errs)
    [] name = "whileStatement" ->
         LET paren == consume(toks, pos, "LEFT_PAREN", "Expect '(' after 'while'.")
             condition == parserMethod("assignment", 0, toks, paren.pos, r)
             close == consume(toks, condition.pos, "RIGHT_PAREN", "Exprect ')' after condition.")
             body == After(condition, parserMethod("statement", 0, toks, close.pos, r))
         IN IF paren.thrown THEN paren
            ELSE IF condition.thrown THEN condition
            ELSE IF close.thrown THEN After(condition, close)
            ELSE IF body.thrown THEN body
            ELSE Parsed([type |-> "WhileStmt", condition |-> condition.expr, body |-> body.expr],
                        body.pos, body.errs)
    [] name = "returnStatement" ->
         \* the keyword is previous(), the token before pos
         LET value == IF ~check(toks, pos, "SEMICOLON")
                      THEN parserMethod("assignment", 0, toks, pos, r)
                      ELSE Parsed(null, pos, <<>>)
             semicolon == consume(toks, value.pos, "SEMICOLON", "Expect ';' after return value")
         IN IF value.thrown THEN value
            ELSE IF semicolon.thrown THEN After(value, semicolon)
            ELSE Parsed([type |-> "ReturnStmt", keyword |-> toks[pos], value |-> value.expr],
                        semicolon.pos, value.errs)
    [] name = "printStatement" ->
         LET value == parserMethod("assignment", 0, toks, pos, r)
             semicolon == consume(toks, value.pos, "SEMICOLON", "Expect ';' after value.")
         IN IF value.thrown THEN value
            ELSE IF semicolon.thrown THEN After(value, semicolon)
            ELSE Parsed([type |-> "PrintStmt", expression |-> value.expr],
                        semicolon.pos, value.errs)
    [] name = "expressionStatement" ->
         LET expr == parserMethod("assignment", 0, toks, pos, r)
             semicolon == consume(toks, expr.pos, "SEMICOLON", "Expect ';' after expression.")
         IN IF expr.thrown THEN expr
            ELSE IF semicolon.thrown THEN After(expr, semicolon)
            ELSE Parsed([type |-> "ExpressionStmt", expression |-> expr.expr],
                        semicolon.pos, expr.errs)
    [] name = "block" ->
         LET statements == parserMethod("blockLoop", 0, toks, pos, Parsed(<<>>, pos, <<>>))
             brace == consume(toks, statements.pos, "RIGHT_BRACE", "Expect '}' after block.")
         IN IF brace.thrown THEN After(statements, brace)
            ELSE Parsed(statements.expr, brace.pos, statements.errs)
    [] name = "blockLoop" ->
         \* block(), its loop; r.expr is statements, and a null declaration is
         \* not pushed
         IF ~check(toks, r.pos, "RIGHT_BRACE") /\ ~parserIsAtEnd(toks, r.pos)
         THEN LET declaration == parserMethod("declaration", 0, toks, r.pos, r)
              IN parserMethod("blockLoop", 0, toks, pos,
                     Parsed(IF declaration.expr.type = "none" THEN r.expr
                            ELSE Append(r.expr, declaration.expr),
                            declaration.pos, r.errs \o declaration.errs))
         ELSE r
    [] name = "primary" ->
         LET t == parserPeek(toks, pos)
         IN CASE t.type = "FALSE" ->
                   Parsed([type |-> "LiteralExpr", value |-> BoolVal(FALSE)], pos + 1, <<>>)
              [] t.type = "TRUE" ->
                   Parsed([type |-> "LiteralExpr", value |-> BoolVal(TRUE)], pos + 1, <<>>)
              [] t.type = "NIL" -> Parsed([type |-> "LiteralExpr", value |-> NilVal], pos + 1, <<>>)
              [] t.type \in {"NUMBER", "STRING"} ->
                   Parsed([type |-> "LiteralExpr", value |-> t.literal], pos + 1, <<>>)
              [] t.type = "SUPER" ->
                   LET dot == consume(toks, pos + 1, "DOT", "Expect '.' after 'super'.")
                       name_ == consume(toks, dot.pos, "IDENTIFIER",
                                        "Expect superclass method name.")
                   IN IF dot.thrown THEN dot
                      ELSE IF name_.thrown THEN name_
                      ELSE Parsed([type |-> "SuperExpr", keyword |-> t, method |-> name_.expr],
                                  name_.pos, <<>>)
              [] t.type = "THIS" -> Parsed([type |-> "ThisExpr", keyword |-> t], pos + 1, <<>>)
              [] t.type = "IDENTIFIER" ->
                   Parsed([type |-> "VariableExpr", name |-> t], pos + 1, <<>>)
              [] t.type = "LEFT_PAREN" ->
                   LET expr == parserMethod("assignment", 0, toks, pos + 1, r)
                       paren == consume(toks, expr.pos, "RIGHT_PAREN",
                                        "Expect ')' after expression.")
                   IN IF expr.thrown THEN expr
                      ELSE IF paren.thrown THEN After(expr, paren)
                      ELSE Parsed([type |-> "GroupingExpr", expression |-> expr.expr],
                                  paren.pos, expr.errs)
              [] OTHER -> Thrown(pos, <<tokenError(t, "Expected expression")>>)

\* the argument r of a method that does not read it
NoResult == Parsed([type |-> "none"], 0, <<>>)
or(toks, pos) == parserMethod("binary", 1, toks, pos, NoResult)
expression(toks, pos) == parserMethod("assignment", 0, toks, pos, NoResult)

expressionStatement(toks, pos) == parserMethod("expressionStatement", 0, toks, pos, NoResult)
forStatement(toks, pos) == parserMethod("forStatement", 0, toks, pos, NoResult)
block(toks, pos) == parserMethod("block", 0, toks, pos, NoResult)
\* declaration() up to the end of its try, and the whole of it
declarationTry(toks, pos) == parserMethod("declarationTry", 0, toks, pos, NoResult)
declaration(toks, pos) == parserMethod("declaration", 0, toks, pos, NoResult)

\* parse(), one turn of its loop up to the end of the try of declaration();
\* the statement is pushed onto parse()'s list
ParseDeclaration ==
  /\ phase = "parse"
  /\ pid = 0
  /\ ~parserIsAtEnd(tokens, pcurrent)
  /\ LET result == declarationTry(tokens, pcurrent)
     IN /\ Report(result.errs)
        /\ pcurrent' = result.pos
        /\ IF result.thrown
           THEN phase' = "synchronize" /\ pstatements' = pstatements
           ELSE phase' = "parse" /\ pstatements' = Append(pstatements, result.expr)
  /\ UNCHANGED <<driverVars, scannerVars, pid, scopes, currentFunction, currentClass, rstack,
                 locals, visits, interpreterVars>>

\* a catch of declaration() that does not call synchronize()
DeclarationCatchOnly ==
  /\ phase = "synchronize"
  /\ pcurrent' = pcurrent
  /\ phase' = "parse"
  /\ UNCHANGED <<driverVars, scannerVars, pid, pstatements, hadError, stderr, resolverVars,
                 interpreterVars>>

\* declaration(), its catch: synchronize() and the result null, which parse()
\* does not push
DeclarationCatch ==
  /\ phase = "synchronize"
  /\ pcurrent' = synchronize(tokens, pcurrent)
  /\ phase' = "parse"
  /\ UNCHANGED <<driverVars, scannerVars, pid, pstatements, hadError, stderr, resolverVars,
                 interpreterVars>>

\* parse(), the end of its loop
ParseEnd ==
  /\ phase = "parse"
  /\ pid = 0
  /\ parserIsAtEnd(tokens, pcurrent)
  /\ phase' = "done"
  /\ UNCHANGED <<driverVars, scannerVars, parserVars, pid, hadError, stderr, resolverVars,
                 interpreterVars>>

(***************************************************************************)
(* Resolver.ts                                                             *)
(***************************************************************************)
RTask(k, n, s) == [k |-> k, n |-> n, s |-> s]

\* resolveStatements: the statements of list, in order
StmtTasks(list) == [i \in 1..Len(list) |-> RTask("stmt", list[i], "")]
ExprTasks(list) == [i \in 1..Len(list) |-> RTask("expr", list[i], "")]

\* the resolver is at a task of kind k on a node of the given type ("" : any)
RAt(k, type) ==
  /\ phase = "resolve"
  /\ rstack # <<>>
  /\ Head(rstack).k = k
  /\ (IF type = "" THEN TRUE ELSE N(Head(rstack).n).type = type)

Visit(n) == visits' = [visits EXCEPT ![n] = @ + 1]

beginScope(sc) == Append(sc, EmptyMap)
endScope(sc) == SubSeq(sc, 1, Len(sc) - 1)
peekScopes(sc) == sc[Len(sc)]

\* the diagnostics of declare(name)
declareErrors(sc, name) ==
  IF Len(sc) > 0 /\ name \in DOMAIN peekScopes(sc)
  THEN <<"VariableExpr with this name already declared in this scope.">>
  ELSE <<>>
declareDefined(sc, name) ==
  IF Len(sc) = 0 THEN sc ELSE [sc EXCEPT ![Len(sc)] = MapSet(@, name, TRUE)]
\* the scope stack after declare(name)
declare(sc, name) ==
  IF Len(sc) = 0 THEN sc ELSE [sc EXCEPT ![Len(sc)] = MapSet(@, name, FALSE)]
\* the scope stack after define(name)
define(sc, name) ==
  IF Len(sc) = 0 THEN sc ELSE [sc EXCEPT ![Len(sc)] = MapSet(@, name, TRUE)]

\* Interpreter.resolve
resolve(loc, expr, depth) == MapSet(loc, expr, depth)

\* resolveLocal's loop from scope i (1-based: scopes[i-1] of the source) down to
\* the bottom of the stack; the loop goes on after a scope that has the name
RECURSIVE resolveLocalFrom(_, _, _, _, _)
resolveLocalFrom(loc, sc, expr, name, i) ==
  IF i < 1 THEN loc
  ELSE resolveLocalFrom(IF name \in DOMAIN sc[i] THEN resolve(loc, expr, Len(sc) - i) ELSE loc,
                        sc, expr, name, i - 1)
resolveLocal(loc, sc, expr, name) == resolveLocalFrom(loc, sc, expr, name, Len(sc))

\* resolveFunction's loop over the parameters: declare and define each
RECURSIVE declareParams(_, _, _)
declareParams(sc, params, i) ==
  IF i > Len(params) THEN sc
  ELSE declareParams(define(declare(sc, params[i]), params[i]), params, i + 1)
RECURSIVE paramErrors(_, _, _)
paramErrors(sc, params, i) ==
  IF i > Len(params) THEN <<>>
  ELSE declareErrors(sc, params[i])
         \o paramErrors(define(declare(sc, params[i]), params[i]), params, i + 1)

\* resolveFunction(fn, functionType) up to the return of resolveStatements(fn.body),
\* entered with the scope stack sc and the rest of the stack rest
ResolveFunctionEnter(fn, functionType, sc, rest, errs) ==
  /\ currentFunction' = functionType
  /\ scopes' = declareParams(beginScope(sc), N(fn).params, 1)
  /\ Report(errs \o paramErrors(beginScope(sc), N(fn).params, 1))
  /\ rstack' = StmtTasks(N(fn).list) \o <<RTask("endFunction", fn, currentFunction)>> \o rest

ResolveBlockStmt ==
  /\ RAt("stmt", "BlockStmt")
  /\ LET n == Head(rstack).n IN
       /\ Visit(n)
       /\ scopes' = beginScope(scopes)
       /\ rstack' = StmtTasks(N(n).list) \o <<RTask("endBlock", n, "")>> \o Tail(rstack)
  /\ UNCHANGED <<pid, phase, hadError, stderr, currentFunction, currentClass, locals>>
  /\ UNCHANGED <<interpreterVars, driverVars, scannerVars, parserVars>>

\* resolveBlockStmt after resolveStatements returned
ResolveBlockStmtEnd ==
  /\ RAt("endBlock", "")
  /\ scopes' = endScope(scopes)
  /\ rstack' = Tail(rstack)
  /\ UNCHANGED <<pid, phase, hadError, stderr, currentFunction, currentClass, locals, visits>>
  /\ UNCHANGED <<interpreterVars, driverVars, scannerVars, parserVars>>

ResolveVarStmt ==
  /\ RAt("stmt", "VarStmt")
  /\ LET n == Head(rstack).n
         name == N(n).name
     IN
       /\ Visit(n)
       /\ Report(declareErrors(scopes, name))
       /\ IF N(n).a # 0
          THEN /\ scopes' = declare(scopes, name)
               /\ rstack' = <<RTask("expr", N(n).a, ""), RTask("define", n, name)>> \o Tail(rstack)
          ELSE /\ scopes' = define(declare(scopes, name), name)
               /\ rstack' = Tail(rstack)
  /\ UNCHANGED <<pid, phase, currentFunction, currentClass, locals>>
  /\ UNCHANGED <<interpreterVars, driverVars, scannerVars, parserVars>>

\* resolveVarStmt after the initializer was resolved
ResolveVarStmtDefine ==
  /\ RAt("define", "")
  /\ scopes' = define(scopes, Head(rstack).s)
  /\ rstack' = Tail(rstack)
  /\ UNCHANGED <<pid, phase, hadError, stderr, currentFunction, currentClass, locals, visits>>
  /\ UNCHANGED <<interpreterVars, driverVars, scannerVars, parserVars>>

\* the cases ExpressionStmt and PrintStmt of resolveStatement
ResolveExpressionStmt ==
  /\ RAt("stmt", "ExpressionStmt")
  /\ LET n == Head(rstack).n IN
       /\ Visit(n)
       /\ rstack' = <<RTask("expr", N(n).a, "")>> \o Tail(rstack)
  /\ UNCHANGED <<pid, phase, hadError, stderr, scopes, currentFunction, currentClass, locals>>
  /\ UNCHANGED <<interpreterVars, driverVars, scannerVars, parserVars>>

ResolvePrintStmt ==
  /\ RAt("stmt", "PrintStmt")
  /\ LET n == Head(rstack).n IN
       /\ Visit(n)
       /\ rstack' = <<RTask("expr", N(n).a, "")>> \o Tail(rstack)
  /\ UNCHANGED <<pid, phase, hadError, stderr, scopes, currentFunction, currentClass, locals>>
  /\ UNCHANGED <<interpreterVars, driverVars, scannerVars, parserVars>>

ResolveFunctionStmt ==
  /\ RAt("stmt", "FunctionStmt")
  /\ LET n == Head(rstack).n
         name == N(n).name
     IN
       /\ Visit(n)
       /\ ResolveFunctionEnter(n, "function", define(declare(scopes, name), name),
                               Tail(rstack), declareErrors(scopes, name))
  /\ UNCHANGED <<pid, phase, currentClass, locals>>
  /\ UNCHANGED <<interpreterVars, driverVars, scannerVars, parserVars>>

\* resolveFunction(method, declaration), called by the loop of resolveClassStmt
ResolveMethod ==
  /\ RAt("method", "")
  /\ LET n == Head(rstack).n IN
       /\ Visit(n)
       /\ ResolveFunctionEnter(n, Head(rstack).s, scopes, Tail(rstack), <<>>)
  /\ UNCHANGED <<pid, phase, currentClass, locals>>
  /\ UNCHANGED <<interpreterVars, driverVars, scannerVars, parserVars>>

\* resolveFunction after resolveStatements(fn.body) returned
ResolveFunctionEnd ==
  /\ RAt("endFunction", "")
  /\ scopes' = endScope(scopes)
  /\ currentFunction' = Head(rstack).s
  /\ rstack' = Tail(rstack)
  /\ UNCHANGED <<pid, phase, hadError, stderr, currentClass, locals, visits>>
  /\ UNCHANGED <<interpreterVars, driverVars, scannerVars, parserVars>>

ResolveIfStmt ==
  /\ RAt("stmt", "IfStmt")
  /\ LET n == Head(rstack).n IN
       /\ Visit(n)
       /\ rstack' = <<RTask("expr", N(n).a, ""), RTask("stmt", N(n).b, "")>>
                    \o (IF N(n).c # 0 THEN <<RTask("stmt", N(n).c, "")>> ELSE <<>>)
                    \o Tail(rstack)
  /\ UNCHANGED <<pid, phase, hadError, stderr, scopes, currentFunction, currentClass, locals>>
  /\ UNCHANGED <<interpreterVars, driverVars, scannerVars, parserVars>>

ResolveWhileStmt ==
  /\ RAt("stmt", "WhileStmt")
  /\ LET n == Head(rstack).n IN
       /\ Visit(n)
       /\ rstack' = <<RTask("expr", N(n).a, ""), RTask("stmt", N(n).b, "")>> \o Tail(rstack)
  /\ UNCHANGED <<pid, phase, hadError, stderr, scopes, currentFunction, currentClass, locals>>
  /\ UNCHANGED <<interpreterVars, driverVars, scannerVars, parserVars>>

\* the case ReturnStmt of resolveStatement: the statement `this.resolveReturnStmt`
\* names the method and does not call it, so the case does nothing
ResolveReturnStmtCase ==
  /\ RAt("stmt", "ReturnStmt")
  /\ Visit(Head(rstack).n)
  /\ rstack' = Tail(rstack)
  /\ UNCHANGED <<pid, phase, hadError, stderr, scopes, currentFunction, currentClass, locals>>
  /\ UNCHANGED <<interpreterVars, driverVars, scannerVars, parserVars>>

\* resolveClassStmt up to the return of resolveExpr(stmt.superclass)
ResolveClassStmt ==
  /\ RAt("stmt", "ClassStmt")
  /\ LET n == Head(rstack).n
         name == N(n).name
         super == N(n).a
     IN
       /\ Visit(n)
       /\ scopes' = define(declare(scopes, name), name)
       /\ Report(declareErrors(scopes, name)
                 \o (IF super # 0 /\ name = N(super).name
                     THEN <<"A class cannot inherit from itself.">> ELSE <<>>))
       /\ currentClass' = IF super # 0 THEN "subclass" ELSE "class"
       /\ rstack' = (IF super # 0 THEN <<RTask("expr", super, "")>> ELSE <<>>)
                    \o <<RTask("classBody", n, currentClass)>> \o Tail(rstack)
  /\ UNCHANGED <<pid, phase, currentFunction, locals>>
  /\ UNCHANGED <<interpreterVars, driverVars, scannerVars, parserVars>>

\* resolveClassStmt from the scopes of super and this to the loop over the methods
ResolveClassBody ==
  /\ RAt("classBody", "")
  /\ LET n == Head(rstack).n
         withSuper == IF N(n).a # 0
                      THEN Append(scopes, MapSet(EmptyMap, "SuperExpr", TRUE))
                      ELSE scopes
         methods == N(n).list
     IN
       /\ scopes' = Append(withSuper, MapSet(EmptyMap, "ThisExpr", TRUE))
       /\ rstack' = [i \in 1..Len(methods) |->
                       RTask("method", methods[i],
                             IF N(methods[i]).name = "init" THEN "initializer" ELSE "method")]
                    \o <<RTask("endClass", n, Head(rstack).s)>> \o Tail(rstack)
  /\ UNCHANGED <<pid, phase, hadError, stderr, currentFunction, currentClass, locals, visits>>
  /\ UNCHANGED <<interpreterVars, driverVars, scannerVars, parserVars>>

\* an end of resolveClassStmt with one endScope() whatever the class is
ResolveClassEndOnce ==
  /\ RAt("endClass", "")
  /\ scopes' = endScope(scopes)
  /\ currentClass' = Head(rstack).s
  /\ rstack' = Tail(rstack)
  /\ UNCHANGED <<pid, phase, hadError, stderr, currentFunction, locals, visits>>
  /\ UNCHANGED <<interpreterVars, driverVars, scannerVars, parserVars>>

\* resolveClassStmt after the loop over the methods
ResolveClassEnd ==
  /\ RAt("endClass", "")
  /\ scopes' = IF N(Head(rstack).n).a # 0 THEN endScope(endScope(scopes)) ELSE endScope(scopes)
  /\ currentClass' = Head(rstack).s
  /\ rstack' = Tail(rstack)
  /\ UNCHANGED <<pid, phase, hadError, stderr, currentFunction, locals, visits>>
  /\ UNCHANGED <<interpreterVars, driverVars, scannerVars, parserVars>>

ResolveVariableExpr ==
  /\ RAt("expr", "VariableExpr")
  /\ LET n == Head(rstack).n
         name == N(n).name
     IN
       /\ Visit(n)
       /\ Report(IF /\ Len(scopes) > 0
                    /\ name \in DOMAIN peekScopes(scopes)
                    /\ peekScopes(scopes)[name] = FALSE
                 THEN <<"Cannot read local variable in its own initializer.">> ELSE <<>>)
       /\ locals' = resolveLocal(locals, scopes, n, name)
       /\ rstack' = Tail(rstack)
  /\ UNCHANGED <<pid, phase, scopes, currentFunction, currentClass>>
  /\ UNCHANGED <<interpreterVars, driverVars, scannerVars, parserVars>>

ResolveAssignExpr ==
  /\ RAt("expr", "AssignExpr")
  /\ LET n == Head(rstack).n IN
       /\ Visit(n)
       /\ rstack' = <<RTask("expr", N(n).a, ""), RTask("assignLocal", n, "")>> \o Tail(rstack)
  /\ UNCHANGED <<pid, phase, hadError, stderr, scopes, currentFunction, currentClass, locals>>
  /\ UNCHANGED <<interpreterVars, driverVars, scannerVars, parserVars>>

\* resolveAssignExpr after the value was resolved
ResolveAssignExprLocal ==
  /\ RAt("assignLocal", "")
  /\ LET n == Head(rstack).n IN
       locals' = resolveLocal(locals, scopes, n, N(n).name)
  /\ rstack' = Tail(rstack)
  /\ UNCHANGED <<pid, phase, hadError, stderr, scopes, currentFunction, currentClass, visits>>
  /\ UNCHANGED <<interpreterVars, driverVars, scannerVars, parserVars>>

\* resolveBinaryExpr: left, then right
ResolveBinaryExpr ==
  /\ RAt("expr", "BinaryExpr")
  /\ LET n == Head(rstack).n IN
       /\ Visit(n)
       /\ rstack' = ExprTasks(<<N(n).a, N(n).b>>) \o Tail(rstack)
  /\ UNCHANGED <<pid, phase, hadError, stderr, scopes, currentFunction, currentClass, locals>>
  /\ UNCHANGED <<interpreterVars, driverVars, scannerVars, parserVars>>

\* resolveLogicalExpr: left, then right
ResolveLogicalExpr ==
  /\ RAt("expr", "LogicalExpr")
  /\ LET n == Head(rstack).n IN
       /\ Visit(n)
       /\ rstack' = ExprTasks(<<N(n).a, N(n).b>>) \o Tail(rstack)
  /\ UNCHANGED <<pid, phase, hadError, stderr, scopes, currentFunction, currentClass, locals>>
  /\ UNCHANGED <<interpreterVars, driverVars, scannerVars, parserVars>>

\* resolveCallExpr: the callee, then the arguments in order
ResolveCallExpr ==
  /\ RAt("expr", "CallExpr")
  /\ LET n == Head(rstack).n IN
       /\ Visit(n)
       /\ rstack' = ExprTasks(<<N(n).a>> \o N(n).list) \o Tail(rstack)
  /\ UNCHANGED <<pid, phase, hadError, stderr, scopes, currentFunction, currentClass, locals>>
  /\ UNCHANGED <<interpreterVars, driverVars, scannerVars, parserVars>>

\* resolveExpr, GroupingExpr: the inner expression
ResolveGroupingExpr ==
  /\ RAt("expr", "GroupingExpr")
  /\ LET n == Head(rstack).n IN
       /\ Visit(n)
       /\ rstack' = ExprTasks(<<N(n).a>>) \o Tail(rstack)
  /\ UNCHANGED <<pid, phase, hadError, stderr, scopes, currentFunction, currentClass, locals>>
  /\ UNCHANGED <<interpreterVars, driverVars, scannerVars, parserVars>>

\* resolveExpr, LiteralExpr: nothing to resolve
ResolveLiteralExpr ==
  /\ RAt("expr", "LiteralExpr")
  /\ LET n == Head(rstack).n IN
       /\ Visit(n)
       /\ rstack' = ExprTasks(<<>>) \o Tail(rstack)
  /\ UNCHANGED <<pid, phase, hadError, stderr, scopes, currentFunction, currentClass, locals>>
  /\ UNCHANGED <<interpreterVars, driverVars, scannerVars, parserVars>>

\* resolveExpr, UnaryExpr: the operand
ResolveUnaryExpr ==
  /\ RAt("expr", "UnaryExpr")
  /\ LET n == Head(rstack).n IN
       /\ Visit(n)
       /\ rstack' = ExprTasks(<<N(n).a>>) \o Tail(rstack)
  /\ UNCHANGED <<pid, phase, hadError, stderr, scopes, currentFunction, currentClass, locals>>
  /\ UNCHANGED <<interpreterVars, driverVars, scannerVars, parserVars>>

\* resolveExpr, GetExpr: the object
ResolveGetExpr ==
  /\ RAt("expr", "GetExpr")
  /\ LET n == Head(rstack).n IN
       /\ Visit(n)
       /\ rstack' = ExprTasks(<<N(n).a>>) \o Tail(rstack)
  /\ UNCHANGED <<pid, phase, hadError, stderr, scopes, currentFunction, currentClass, locals>>
  /\ UNCHANGED <<interpreterVars, driverVars, scannerVars, parserVars>>

\* resolveSetExpr: the value, then the object
ResolveSetExpr ==
  /\ RAt("expr", "SetExpr")
  /\ LET n == Head(rstack).n IN
       /\ Visit(n)
       /\ rstack' = ExprTasks(<<N(n).b, N(n).a>>) \o Tail(rstack)
  /\ UNCHANGED <<pid, phase, hadError, stderr, scopes, currentFunction, currentClass, locals>>
  /\ UNCHANGED <<interpreterVars, driverVars, scannerVars, parserVars>>

ResolveThisExpr ==
  /\ RAt("expr", "ThisExpr")
  /\ LET n == Head(rstack).n IN
       /\ Visit(n)
       /\ Report(IF currentClass = "none"
                 THEN <<"Cannot use 'this' outside of a class.">> ELSE <<>>)
       /\ locals' = resolveLocal(locals, scopes, n, N(n).name)
       /\ rstack' = Tail(rstack)
  /\ UNCHANGED <<pid, phase, scopes, currentFunction, currentClass>>
  /\ UNCHANGED <<interpreterVars, driverVars, scannerVars, parserVars>>

ResolveSuperExpr ==
  /\ RAt("expr", "SuperExpr")
  /\ LET n == Head(rstack).n IN
       /\ Visit(n)
       /\ Report(IF currentClass = "none"
                 THEN <<"Cannot use 'super' outside of a class.">>
                 ELSE IF currentClass # "subclass"
                 THEN <<"Cannot use 'super' in a class with no superclass.">>
                 ELSE <<>>)
       /\ locals' = resolveLocal(locals, scopes, n, N(n).name)
       /\ rstack' = Tail(rstack)
  /\ UNCHANGED <<pid, phase, scopes, currentFunction, currentClass>>
  /\ UNCHANGED <<interpreterVars, driverVars, scannerVars, parserVars>>

ResolveStatement ==
  \/ ResolveBlockStmt
  \/ ResolveBlockStmtEnd
  \/ ResolveVarStmt
  \/ ResolveVarStmtDefine
  \/ ResolveExpressionStmt
  \/ ResolveFunctionStmt
  \/ ResolveMethod
  \/ ResolveFunctionEnd
  \/ ResolveIfStmt
  \/ ResolvePrintStmt
  \/ ResolveReturnStmtCase
  \/ ResolveWhileStmt
  \/ ResolveClassStmt
  \/ ResolveClassBody
  \/ ResolveClassEnd

ResolveExpr ==
  \/ ResolveVariableExpr
  \/ ResolveAssignExpr
  \/ ResolveAssignExprLocal
  \/ ResolveBinaryExpr
  \/ ResolveCallExpr
  \/ ResolveGroupingExpr
  \/ ResolveLiteralExpr
  \/ ResolveLogicalExpr
  \/ ResolveUnaryExpr
  \/ ResolveGetExpr
  \/ ResolveSetExpr
  \/ ResolveThisExpr
  \/ ResolveSuperExpr

\* runtimeError(e), which interpret imports from ./Error: the message goes to
\* the error output
runtimeError(e) == stderr' = Append(stderr, e.message)

(***************************************************************************)
(* Exceptions.  kind is "none", or the class of the object thrown:         *)
(* "Return" (Interpreter.ts, class Return), "RuntimeError" (class          *)
(* RuntimeError), or "TypeError", the host's own exception for a property  *)
(* read of null or undefined or a call of something that is no function.   *)
(***************************************************************************)
NoSignal == [kind |-> "none", value |-> NilVal, message |-> ""]
Return(value) == [kind |-> "Return", value |-> value, message |-> ""]
RuntimeError(message) == [kind |-> "RuntimeError", value |-> NilVal, message |-> message]
TypeError == [kind |-> "TypeError", value |-> NilVal, message |-> ""]

\* how a call of the source ends: with the value v, or by throwing sig
Ok(v) == [sig |-> NoSignal, v |-> v]
Throw(sig) == [sig |-> sig, v |-> Undefined]

(***************************************************************************)
(* Environment (src/unnamed/part_005).  es is the table of the frames, e   *)
(* the index of `this`; 0 is null.                                         *)
(***************************************************************************)
Environment(enclosing) == [values |-> EmptyMap, enclosing |-> enclosing]

EnvDefine(es, e, name, value) == [es EXCEPT ![e].values = ObjectSet(@, name, value)]

\* get: the frame's own slot, else the enclosing frame's, else the error
RECURSIVE EnvGet(_, _, _)
EnvGet(es, e, name) ==
  IF name \in DOMAIN es[e].values THEN Ok(es[e].values[name])
  ELSE IF es[e].enclosing # 0 THEN EnvGet(es, es[e].enclosing, name)
  ELSE Throw(RuntimeError("Undefined variable '" \o name \o "'."))

\* ancestor: distance steps along enclosing; 0 when the chain ends before
RECURSIVE ancestor(_, _, _)
ancestor(es, e, distance) ==
  IF distance <= 0 \/ e = 0 THEN e
  ELSE ancestor(es, es[e].enclosing, distance - 1)

\* getAt: the slot of the ancestor, undefined when it has none; the read of
\* .values of a null ancestor is the host's TypeError
getAt(es, e, distance, name) ==
  LET a == ancestor(es, e, distance) IN
    IF a = 0 THEN Throw(TypeError)
    ELSE IF name \in DOMAIN es[a].values THEN Ok(es[a].values[name])
    ELSE Ok(Undefined)

\* assign: the frames after the assignment (es unchanged when it throws)
RECURSIVE EnvAssign(_, _, _, _)
EnvAssign(es, e, name, value) ==
  IF name \in DOMAIN es[e].values
  THEN [sig |-> NoSignal, es |-> [es EXCEPT ![e].values = ObjectSet(@, name, value)]]
  ELSE IF es[e].enclosing # 0 THEN EnvAssign(es, es[e].enclosing, name, value)
  ELSE [sig |-> RuntimeError("Undefined variable '" \o name \o "'."), es |-> es]

\* assignAt: the slot of the ancestor is written whether or not it exists
assignAt(es, e, distance, name, value) ==
  LET a == ancestor(es, e, distance) IN
    IF a = 0 THEN [sig |-> TypeError, es |-> es]
    ELSE [sig |-> NoSignal, es |-> [es EXCEPT ![a].values = ObjectSet(@, name, value)]]

(***************************************************************************)
(* Interpreter.ts: the helpers and the runtime classes                     *)
(***************************************************************************)
isTruthy(object) ==
  IF object.t \in {"nil", "undefined"} THEN FALSE
  ELSE IF object.t = "boolean" THEN object.n = 1
  ELSE TRUE

\* a === b of the host: by value for nil, booleans, numbers and strings, by
\* identity for objects
isEqual(a, b) == a = b

\* LoxClass.findMethod: the index of the method in funs, 0 for null
RECURSIVE findMethod(_, _, _)
findMethod(cs, c, name) ==
  IF name \in DOMAIN cs[c].methods THEN cs[c].methods[name]
  ELSE IF cs[c].superclass # 0 THEN findMethod(cs, cs[c].superclass, name)
  ELSE 0

\* LoxFunction.arity, LoxClass.arity and the arity of the native clock
LoxFunctionArity(f) == Len(N(funs[f].declaration).params)
LoxClassArity(c) == 0
arity(callee) ==
  IF callee.t = "LoxFunction" THEN LoxFunctionArity(callee.n)
  ELSE IF callee.t = "LoxClass" THEN LoxClassArity(callee.n)
  ELSE 0

\* LoxFunction.bind(instance) of the function f: the frame it creates and the
\* function it returns, which get the indices Len(es) + 1 and Len(fs) + 1
\* (bindEnvDetached is a bind whose frame encloses nothing)
bindEnvDetached(fs, f, instance) ==
  [values |-> MapSet(EmptyMap, "ThisExpr", instance), enclosing |-> 0]
bindEnv(fs, f, instance) ==
  [values |-> MapSet(EmptyMap, "ThisExpr", instance), enclosing |-> fs[f].closure]
bindFun(es, fs, f) == [fs[f] EXCEPT !.closure = Len(es) + 1]

\* the frame LoxFunction.call creates for the function f called with args: the
\* parameters in order, args[i] being undefined beyond the arguments given
RECURSIVE defineParams(_, _, _, _)
defineParams(values, params, args, i) ==
  IF i > Len(params) THEN values
  ELSE defineParams(ObjectSet(values, params[i], IF i <= Len(args) THEN args[i] ELSE Undefined),
                    params, args, i + 1)
\* a call frame hung under the globals instead of under the function's closure
callEnvUnderGlobals(fs, f, args) ==
  [values |-> defineParams(EmptyMap, N(fs[f].declaration).params, args, 1),
   enclosing |-> 1]
callEnv(fs, f, args) ==
  [values |-> defineParams(EmptyMap, N(fs[f].declaration).params, args, 1),
   enclosing |-> fs[f].closure]

\* a call that returns the value of the return whatever the function is
callResultOfReturn(es, fs, f, value) == Ok(value)
\* what LoxFunction.call returns when the body ended or threw Return(value)
callResult(es, fs, f, value) ==
  IF fs[f].isInitializer THEN getAt(es, fs[f].closure, 0, "ThisExpr") ELSE Ok(value)

lookUpVariable(es, env, loc, name, expr) ==
  IF expr \in DOMAIN loc THEN getAt(es, env, loc[expr], name)
  ELSE EnvGet(es, 1, name)

checkNumberOperands(left, right) == left.t = "number" /\ right.t = "number"

\* the quotient of two numbers
Quotient(l, r) == IF r # 0 /\ l % r = 0 THEN NumVal(l \div r) ELSE NotAnInteger

\* evaluateBinary once both operands are evaluated
evaluateBinary(operator, left, right) ==
  LET numbers == checkNumberOperands(left, right)
      bad == Throw(RuntimeError("Operands must be a numbers."))
  IN CASE operator = "GREATER" -> IF numbers THEN Ok(BoolVal(left.n > right.n)) ELSE bad
       [] operator = "GREATER_EQUAL" -> IF numbers THEN Ok(BoolVal(left.n >= right.n)) ELSE bad
       [] operator = "LESS" -> IF numbers THEN Ok(BoolVal(left.n < right.n)) ELSE bad
       [] operator = "LESS_EQUAL" -> IF numbers THEN Ok(BoolVal(left.n <= right.n)) ELSE bad
       [] operator = "MINUS" -> IF numbers THEN Ok(NumVal(left.n - right.n)) ELSE bad
       [] operator = "PLUS" ->
            IF numbers THEN Ok(NumVal(left.n + right.n))
            ELSE IF left.t = "string" /\ right.t = "string" THEN Ok(StrVal(left.s \o right.s))
            ELSE Throw(RuntimeError("Operands must be two numbers or two strings."))
       [] operator = "SLASH" -> IF numbers THEN Ok(Quotient(left.n, right.n)) ELSE bad
       [] operator = "STAR" -> IF numbers THEN Ok(NumVal(left.n * right.n)) ELSE bad
       [] operator = "BANG_EQUAL" -> Ok(BoolVal(~isEqual(left, right)))
       [] operator = "EQUAL_EQUAL" -> Ok(BoolVal(isEqual(left, right)))
       [] OTHER -> Ok(Undefined)

\* evaluateUnary once the operand is evaluated
evaluateUnary(operator, right) ==
  CASE operator = "BANG" -> Ok(BoolVal(~isTruthy(right)))
    [] operator = "MINUS" ->
         IF right.t = "number" THEN Ok(NumVal(-right.n))
         ELSE Throw(RuntimeError("Operand must be a number."))
    [] OTHER -> Ok(Undefined)

(***************************************************************************)
(* Interpreter.ts: evaluateStmt and evaluate                               *)
(***************************************************************************)
KTask(k, n, m) == [k |-> k, n |-> n, m |-> m]
StmtKTasks(list) == [i \in 1..Len(list) |-> KTask("stmt", list[i], 0)]
ExprKTasks(list) == [i \in 1..Len(list) |-> KTask("expr", list[i], 0)]

\* the interpreter is at a task of kind k on a node of the given type ("" : any),
\* with no exception in flight
IAt(k, type) ==
  /\ phase = "interpret"
  /\ signal.kind = "none"
  /\ kont # <<>>
  /\ Head(kont).k = k
  /\ (IF type = "" THEN TRUE ELSE N(Head(kont).n).type = type)

\* the current call ends as c says: its value goes on top of vs, or its
\* exception is in flight; rest is what the caller still has to do
Deliver(c, rest, vs) ==
  /\ kont' = rest
  /\ IF c.sig.kind = "none"
     THEN vals' = <<c.v>> \o vs /\ signal' = signal
     ELSE vals' = vs /\ signal' = c.sig

\* evaluateBlock(statements, env) up to its finally, which restores previous:
\* the task endBlock holds env (n) and previous (m)
EvaluateBlock(statements, env, rest) ==
  /\ environment' = env
  /\ kont' = StmtKTasks(statements) \o <<KTask("endBlock", env, environment)>> \o rest

staticVars == <<driverVars, scannerVars, parserVars, pid, phase, hadError, stderr, scopes,
                currentFunction, currentClass, rstack, locals, visits>>

EvaluateExpressionStmt ==
  /\ IAt("stmt", "ExpressionStmt")
  /\ kont' = <<KTask("expr", N(Head(kont).n).a, 0), KTask("endExpressionStmt", 0, 0)>> \o Tail(kont)
  /\ UNCHANGED <<environment, envs, funs, classes, insts, vals, signal, stdout, outcome>>
  /\ UNCHANGED staticVars

\* the case ExpressionStmt after evaluate returned: the value is dropped
EvaluateExpressionStmtEnd ==
  /\ IAt("endExpressionStmt", "")
  /\ vals' = Tail(vals)
  /\ kont' = Tail(kont)
  /\ UNCHANGED <<environment, envs, funs, classes, insts, signal, stdout, outcome>>
  /\ UNCHANGED staticVars

EvaluatePrintStmt ==
  /\ IAt("stmt", "PrintStmt")
  /\ kont' = <<KTask("expr", N(Head(kont).n).a, 0), KTask("endPrintStmt", 0, 0)>> \o Tail(kont)
  /\ UNCHANGED <<environment, envs, funs, classes, insts, vals, signal, stdout, outcome>>
  /\ UNCHANGED staticVars

\* console.log(val ?? "nil")
EvaluatePrintStmtEnd ==
  /\ IAt("endPrintStmt", "")
  /\ stdout' = Append(stdout, IF Head(vals).t \in {"nil", "undefined"}
                              THEN StrVal("nil") ELSE Head(vals))
  /\ vals' = Tail(vals)
  /\ kont' = Tail(kont)
  /\ UNCHANGED <<environment, envs, funs, classes, insts, signal, outcome>>
  /\ UNCHANGED staticVars

EvaluateVarStmt ==
  /\ IAt("stmt", "VarStmt")
  /\ LET n == Head(kont).n IN
       IF N(n).a # 0
       THEN /\ kont' = <<KTask("expr", N(n).a, 0), KTask("endVarStmt", n, 0)>> \o Tail(kont)
            /\ envs' = envs
       ELSE /\ kont' = Tail(kont)
            /\ envs' = EnvDefine(envs, environment, N(n).name, NilVal)
  /\ UNCHANGED <<environment, funs, classes, insts, vals, signal, stdout, outcome>>
  /\ UNCHANGED staticVars

\* the case VarStmt after the initializer was evaluated
EvaluateVarStmtEnd ==
  /\ IAt("endVarStmt", "")
  /\ envs' = EnvDefine(envs, environment, N(Head(kont).n).name, Head(vals))
  /\ vals' = Tail(vals)
  /\ kont' = Tail(kont)
  /\ UNCHANGED <<environment, funs, classes, insts, signal, stdout, outcome>>
  /\ UNCHANGED staticVars

EvaluateBlockStmt ==
  /\ IAt("stmt", "BlockStmt")
  /\ envs' = Append(envs, Environment(environment))
  /\ EvaluateBlock(N(Head(kont).n).list, Len(envs) + 1, Tail(kont))
  /\ UNCHANGED <<funs, classes, insts, vals, signal, stdout, outcome>>
  /\ UNCHANGED staticVars

\* the finally of evaluateBlock when the statements ended without an exception
EvaluateBlockEnd ==
  /\ IAt("endBlock", "")
  /\ environment' = Head(kont).m
  /\ kont' = Tail(kont)
  /\ UNCHANGED <<envs, funs, classes, insts, vals, signal, stdout, outcome>>
  /\ UNCHANGED staticVars

EvaluateIfStmt ==
  /\ IAt("stmt", "IfStmt")
  /\ LET n == Head(kont).n IN
       kont' = <<KTask("expr", N(n).a, 0), KTask("ifBranch", n, 0)>> \o Tail(kont)
  /\ UNCHANGED <<environment, envs, funs, classes, insts, vals, signal, stdout, outcome>>
  /\ UNCHANGED staticVars

\* the case IfStmt after the condition was evaluated
EvaluateIfStmtBranch ==
  /\ IAt("ifBranch", "")
  /\ LET n == Head(kont).n IN
       kont' = (IF isTruthy(Head(vals)) THEN <<KTask("stmt", N(n).b, 0)>>
                ELSE IF N(n).c # 0 THEN <<KTask("stmt", N(n).c, 0)>>
                ELSE <<>>) \o Tail(kont)
  /\ vals' = Tail(vals)
  /\ UNCHANGED <<environment, envs, funs, classes, insts, signal, stdout, outcome>>
  /\ UNCHANGED staticVars

\* the case WhileStmt at the test of the loop
EvaluateWhileStmt ==
  /\ IAt("stmt", "WhileStmt")
  /\ LET n == Head(kont).n IN
       kont' = <<KTask("expr", N(n).a, 0), KTask("whileBody", n, 0)>> \o Tail(kont)
  /\ UNCHANGED <<environment, envs, funs, classes, insts, vals, signal, stdout, outcome>>
  /\ UNCHANGED staticVars

\* the case WhileStmt after the condition was evaluated: the body and the test
\* again, or the end of the loop
EvaluateWhileStmtBody ==
  /\ IAt("whileBody", "")
  /\ LET n == Head(kont).n IN
       kont' = (IF isTruthy(Head(vals))
                THEN <<KTask("stmt", N(n).b, 0), KTask("stmt", n, 0)>>
                ELSE <<>>) \o Tail(kont)
  /\ vals' = Tail(vals)
  /\ UNCHANGED <<environment, envs, funs, classes, insts, signal, stdout, outcome>>
  /\ UNCHANGED staticVars

EvaluateFunctionStmt ==
  /\ IAt("stmt", "FunctionStmt")
  /\ LET n == Head(kont).n IN
       /\ funs' = Append(funs, [declaration |-> n, closure |-> environment,
                                isInitializer |-> FALSE])
       /\ envs' = EnvDefine(envs, environment, N(n).name, FunVal(Len(funs) + 1))
  /\ kont' = Tail(kont)
  /\ UNCHANGED <<environment, classes, insts, vals, signal, stdout, outcome>>
  /\ UNCHANGED staticVars

EvaluateReturnStmt ==
  /\ IAt("stmt", "ReturnStmt")
  /\ LET n == Head(kont).n IN
       IF N(n).a # 0
       THEN /\ kont' = <<KTask("expr", N(n).a, 0), KTask("throwReturn", n, 0)>> \o Tail(kont)
            /\ signal' = signal
       ELSE /\ kont' = Tail(kont)
            /\ signal' = Return(NilVal)
  /\ UNCHANGED <<environment, envs, funs, classes, insts, vals, stdout, outcome>>
  /\ UNCHANGED staticVars

\* the case ReturnStmt after the value was evaluated: throw new Return(value)
EvaluateReturnStmtThrow ==
  /\ IAt("throwReturn", "")
  /\ signal' = Return(Head(vals))
  /\ vals' = Tail(vals)
  /\ kont' = Tail(kont)
  /\ UNCHANGED <<environment, envs, funs, classes, insts, stdout, outcome>>
  /\ UNCHANGED staticVars

\* the methods of the class statement n as LoxFunction objects closing over env,
\* appended to fs in the order of the source
RECURSIVE methodFuns(_, _, _, _)
methodFuns(fs, methods, env, i) ==
  IF i > Len(methods) THEN fs
  ELSE methodFuns(Append(fs, [declaration |-> methods[i], closure |-> env,
                              isInitializer |-> (N(methods[i]).name = "init")]),
                  methods, env, i + 1)
\* the method table: a later method of the same name replaces an earlier one
RECURSIVE methodTable(_, _, _, _)
methodTable(table, methods, first, i) ==
  IF i > Len(methods) THEN table
  ELSE methodTable(ObjectSet(table, N(methods[i]).name, first + i), methods, first, i + 1)

\* the case ClassStmt from environment.define(name, null) up to the loop over
\* the methods, superclass being the index of the superclass in classes (0:
\* none): with a superclass the current environment becomes a new frame that
\* holds it under "SuperExpr"
DefineClass(n, superclass, rest, vs) ==
  LET es1 == EnvDefine(envs, environment, N(n).name, NilVal) IN
    /\ IF superclass # 0
       THEN /\ envs' = Append(es1, [values |-> MapSet(EmptyMap, "SuperExpr", ClassVal(superclass)),
                                    enclosing |-> environment])
            /\ environment' = Len(es1) + 1
       ELSE /\ envs' = es1
            /\ environment' = environment
    /\ kont' = <<KTask("classMethods", n, superclass)>> \o rest
    /\ vals' = vs
    /\ UNCHANGED <<funs, classes, insts, signal, stdout, outcome>>

EvaluateClassStmt ==
  /\ IAt("stmt", "ClassStmt")
  /\ LET n == Head(kont).n IN
       IF N(n).a # 0
       THEN /\ kont' = <<KTask("expr", N(n).a, 0), KTask("defineClass", n, 0)>> \o Tail(kont)
            /\ UNCHANGED <<environment, envs, funs, classes, insts, vals, signal, stdout, outcome>>
       ELSE DefineClass(n, 0, Tail(kont), vals)
  /\ UNCHANGED staticVars

\* the case ClassStmt after the superclass was evaluated
EvaluateClassStmtSuper ==
  /\ IAt("defineClass", "")
  /\ LET superclass == Head(vals) IN
       IF superclass.t # "LoxClass"
       THEN /\ signal' = RuntimeError("Superclass must be a class")
            /\ kont' = Tail(kont)
            /\ vals' = Tail(vals)
            /\ UNCHANGED <<environment, envs, funs, classes, insts, stdout, outcome>>
       ELSE DefineClass(Head(kont).n, superclass.n, Tail(kont), Tail(vals))
  /\ UNCHANGED staticVars

\* the rest of the case ClassStmt: the methods close over the current
\* environment, the class is made, with a superclass the current environment
\* goes back to environment.enclosing, and the class is assigned to its name
EvaluateClassStmtMethods ==
  /\ IAt("classMethods", "")
  /\ LET n == Head(kont).n
         superclass == Head(kont).m
         klass == [name |-> N(n).name, superclass |-> superclass,
                   methods |-> methodTable(EmptyMap, N(n).list, Len(funs), 1)]
         restored == IF superclass # 0 THEN envs[environment].enclosing ELSE environment
         assigned == EnvAssign(envs, restored, N(n).name, ClassVal(Len(classes) + 1))
     IN /\ funs' = methodFuns(funs, N(n).list, environment, 1)
        /\ classes' = Append(classes, klass)
        /\ environment' = restored
        /\ envs' = assigned.es
        /\ signal' = assigned.sig
        /\ kont' = Tail(kont)
  /\ UNCHANGED <<insts, vals, stdout, outcome>>
  /\ UNCHANGED staticVars

EvaluateStmt ==
  \/ EvaluateExpressionStmt
  \/ EvaluateExpressionStmtEnd
  \/ EvaluatePrintStmt
  \/ EvaluatePrintStmtEnd
  \/ EvaluateVarStmt
  \/ EvaluateVarStmtEnd
  \/ EvaluateBlockStmt
  \/ EvaluateBlockEnd
  \/ EvaluateIfStmt
  \/ EvaluateIfStmtBranch
  \/ EvaluateWhileStmt
  \/ EvaluateWhileStmtBody
  \/ EvaluateFunctionStmt
  \/ EvaluateReturnStmt
  \/ EvaluateReturnStmtThrow
  \/ EvaluateClassStmt
  \/ EvaluateClassStmtSuper
  \/ EvaluateClassStmtMethods

EvaluateLiteralExpr ==
  /\ IAt("expr", "LiteralExpr")
  /\ Deliver(Ok(N(Head(kont).n).value), Tail(kont), vals)
  /\ UNCHANGED <<environment, envs, funs, classes, insts, stdout, outcome>>
  /\ UNCHANGED staticVars

EvaluateGroupingExpr ==
  /\ IAt("expr", "GroupingExpr")
  /\ kont' = <<KTask("expr", N(Head(kont).n).a, 0)>> \o Tail(kont)
  /\ UNCHANGED <<environment, envs, funs, classes, insts, vals, signal, stdout, outcome>>
  /\ UNCHANGED staticVars

\* evaluateLogical up to the return of evaluate(expr.left)
EvaluateLogicalExpr ==
  /\ IAt("expr", "LogicalExpr")
  /\ LET n == Head(kont).n IN
       kont' = <<KTask("expr", N(n).a, 0), KTask("logicalRight", n, 0)>> \o Tail(kont)
  /\ UNCHANGED <<environment, envs, funs, classes, insts, vals, signal, stdout, outcome>>
  /\ UNCHANGED staticVars

\* evaluateLogical after the left operand: it is the result, or the right one is
EvaluateLogicalExprRight ==
  /\ IAt("logicalRight", "")
  /\ LET n == Head(kont).n
         left == Head(vals)
         short == IF N(n).op = "OR" THEN isTruthy(left) ELSE ~isTruthy(left)
     IN IF short
        THEN /\ kont' = Tail(kont)
             /\ vals' = vals
        ELSE /\ kont' = <<KTask("expr", N(n).b, 0)>> \o Tail(kont)
             /\ vals' = Tail(vals)
  /\ UNCHANGED <<environment, envs, funs, classes, insts, signal, stdout, outcome>>
  /\ UNCHANGED staticVars

EvaluateUnaryExpr ==
  /\ IAt("expr", "UnaryExpr")
  /\ LET n == Head(kont).n IN
       kont' = <<KTask("expr", N(n).a, 0), KTask("applyUnary", n, 0)>> \o Tail(kont)
  /\ UNCHANGED <<environment, envs, funs, classes, insts, vals, signal, stdout, outcome>>
  /\ UNCHANGED staticVars

EvaluateUnaryExprApply ==
  /\ IAt("applyUnary", "")
  /\ Deliver(evaluateUnary(N(Head(kont).n).op, Head(vals)), Tail(kont), Tail(vals))
  /\ UNCHANGED <<environment, envs, funs, classes, insts, stdout, outcome>>
  /\ UNCHANGED staticVars

EvaluateBinaryExpr ==
  /\ IAt("expr", "BinaryExpr")
  /\ LET n == Head(kont).n IN
       kont' = <<KTask("expr", N(n).a, 0), KTask("expr", N(n).b, 0), KTask("applyBinary", n, 0)>>
               \o Tail(kont)
  /\ UNCHANGED <<environment, envs, funs, classes, insts, vals, signal, stdout, outcome>>
  /\ UNCHANGED staticVars

EvaluateBinaryExprApply ==
  /\ IAt("applyBinary", "")
  /\ Deliver(evaluateBinary(N(Head(kont).n).op, vals[2], vals[1]), Tail(kont), Tail(Tail(vals)))
  /\ UNCHANGED <<environment, envs, funs, classes, insts, stdout, outcome>>
  /\ UNCHANGED staticVars

EvaluateVariableExpr ==
  /\ IAt("expr", "VariableExpr")
  /\ LET n == Head(kont).n IN
       Deliver(lookUpVariable(envs, environment, locals, N(n).name, n), Tail(kont), vals)
  /\ UNCHANGED <<environment, envs, funs, classes, insts, stdout, outcome>>
  /\ UNCHANGED staticVars

EvaluateAssignExpr ==
  /\ IAt("expr", "AssignExpr")
  /\ LET n == Head(kont).n IN
       kont' = <<KTask("expr", N(n).a, 0), KTask("assign", n, 0)>> \o Tail(kont)
  /\ UNCHANGED <<environment, envs, funs, classes, insts, vals, signal, stdout, outcome>>
  /\ UNCHANGED staticVars

\* the case AssignExpr after the value was evaluated
EvaluateAssignExprStore ==
  /\ IAt("assign", "")
  /\ LET n == Head(kont).n
         value == Head(vals)
         done == IF n \in DOMAIN locals
                 THEN assignAt(envs, environment, locals[n], N(n).name, value)
                 ELSE EnvAssign(envs, 1, N(n).name, value)
     IN /\ envs' = done.es
        /\ Deliver([sig |-> done.sig, v |-> value], Tail(kont), Tail(vals))
  /\ UNCHANGED <<environment, funs, classes, insts, stdout, outcome>>
  /\ UNCHANGED staticVars

\* evaluateCall up to the end of the evaluation of the arguments
EvaluateCallExpr ==
  /\ IAt("expr", "CallExpr")
  /\ LET n == Head(kont).n IN
       kont' = <<KTask("expr", N(n).a, 0)>> \o ExprKTasks(N(n).list)
               \o <<KTask("call", n, 0)>> \o Tail(kont)
  /\ UNCHANGED <<environment, envs, funs, classes, insts, vals, signal, stdout, outcome>>
  /\ UNCHANGED staticVars

\* the callee and the arguments of the call at the top of kont, and the values
\* below them
CallArgc == Len(N(Head(kont).n).list)
CallArgs == [i \in 1..CallArgc |-> vals[CallArgc + 1 - i]]
Callee == vals[CallArgc + 1]
CallRest == SubSeq(vals, CallArgc + 2, Len(vals))

\* what evaluateCall throws instead of calling, if anything: the read of .call
\* of null or undefined is the host's TypeError
CallError ==
  IF Callee.t \in {"nil", "undefined"} THEN TypeError
  ELSE IF Callee.t \notin {"LoxFunction", "LoxClass", "native"}
  THEN RuntimeError("Can only call functions and classes")
  ELSE IF CallArgc # arity(Callee)
  THEN RuntimeError("Expected " \o ToString(arity(Callee)) \o " arguments but got "
                    \o ToString(CallArgc) \o ".")
  ELSE NoSignal

EvaluateCallExprThrow ==
  /\ IAt("call", "")
  /\ CallError.kind # "none"
  /\ Deliver(Throw(CallError), Tail(kont), CallRest)
  /\ UNCHANGED <<environment, envs, funs, classes, insts, stdout, outcome>>
  /\ UNCHANGED staticVars

\* LoxFunction.call up to the return of evaluateBlock; "return" is its catch
LoxFunctionCall ==
  /\ IAt("call", "")
  /\ CallError.kind = "none"
  /\ Callee.t = "LoxFunction"
  /\ LET f == Callee.n IN
       /\ envs' = Append(envs, callEnv(funs, f, CallArgs))
       /\ EvaluateBlock(N(funs[f].declaration).list, Len(envs) + 1,
                        <<KTask("return", f, Len(CallRest))>> \o Tail(kont))
  /\ vals' = CallRest
  /\ UNCHANGED <<funs, classes, insts, signal, stdout, outcome>>
  /\ UNCHANGED staticVars

\* LoxFunction.call after the body ended without an exception
LoxFunctionCallEnd ==
  /\ IAt("return", "")
  /\ Deliver(callResult(envs, funs, Head(kont).n, NilVal), Tail(kont), vals)
  /\ UNCHANGED <<environment, envs, funs, classes, insts, stdout, outcome>>
  /\ UNCHANGED staticVars

\* LoxClass.call: the instance, and the call of the bound initializer if the
\* class or a superclass has one ("instance": the return of the instance)
LoxClassCall ==
  /\ IAt("call", "")
  /\ CallError.kind = "none"
  /\ Callee.t = "LoxClass"
  /\ LET instance == Len(insts) + 1
         initializer == findMethod(classes, Callee.n, "init")
         bound == Len(funs) + 1
         fs == Append(funs, bindFun(envs, funs, initializer))
         es == Append(envs, bindEnv(funs, initializer, InstVal(instance)))
     IN
       /\ insts' = Append(insts, [klass |-> Callee.n, fields |-> EmptyMap])
       /\ IF initializer # 0
          THEN /\ funs' = fs
               /\ envs' = Append(es, callEnv(fs, bound, CallArgs))
               /\ EvaluateBlock(N(fs[bound].declaration).list, Len(es) + 1,
                                <<KTask("return", bound, Len(CallRest)),
                                  KTask("instance", instance, 0)>> \o Tail(kont))
               /\ vals' = CallRest
          ELSE /\ kont' = Tail(kont)
               /\ vals' = <<InstVal(instance)>> \o CallRest
               /\ UNCHANGED <<environment, envs, funs>>
  /\ UNCHANGED <<classes, signal, stdout, outcome>>
  /\ UNCHANGED staticVars

\* LoxClass.call after the initializer returned: its value is dropped
LoxClassCallEnd ==
  /\ IAt("instance", "")
  /\ vals' = <<InstVal(Head(kont).n)>> \o Tail(vals)
  /\ kont' = Tail(kont)
  /\ UNCHANGED <<environment, envs, funs, classes, insts, signal, stdout, outcome>>
  /\ UNCHANGED staticVars

\* the native clock: Date.now() / 1000, whatever the clock says
ClockCall ==
  /\ IAt("call", "")
  /\ CallError.kind = "none"
  /\ Callee.t = "native"
  /\ \E now \in 0..MaxClock : vals' = <<NumVal(now)>> \o CallRest
  /\ kont' = Tail(kont)
  /\ UNCHANGED <<environment, envs, funs, classes, insts, signal, stdout, outcome>>
  /\ UNCHANGED staticVars

EvaluateGetExpr ==
  /\ IAt("expr", "GetExpr")
  /\ LET n == Head(kont).n IN
       kont' = <<KTask("expr", N(n).a, 0), KTask("get", n, 0)>> \o Tail(kont)
  /\ UNCHANGED <<environment, envs, funs, classes, insts, vals, signal, stdout, outcome>>
  /\ UNCHANGED staticVars

\* evaluateGet after the object was evaluated, with LoxInstance.get
EvaluateGetExprGet ==
  /\ IAt("get", "")
  /\ LET name == N(Head(kont).n).name
         obj == Head(vals)
         method == findMethod(classes, insts[obj.n].klass, name)
     IN IF obj.t # "LoxInstance"
        THEN /\ Deliver(Throw(RuntimeError("Only instances have properties.")),
                        Tail(kont), Tail(vals))
             /\ UNCHANGED <<envs, funs>>
        ELSE IF name \in DOMAIN insts[obj.n].fields
        THEN /\ Deliver(Ok(insts[obj.n].fields[name]), Tail(kont), Tail(vals))
             /\ UNCHANGED <<envs, funs>>
        ELSE IF method # 0
        THEN /\ envs' = Append(envs, bindEnv(funs, method, obj))
             /\ funs' = Append(funs, bindFun(envs, funs, method))
             /\ Deliver(Ok(FunVal(Len(funs) + 1)), Tail(kont), Tail(vals))
        ELSE /\ Deliver(Throw(RuntimeError("Undefined property '" \o name \o "'.")),
                        Tail(kont), Tail(vals))
             /\ UNCHANGED <<envs, funs>>
  /\ UNCHANGED <<environment, classes, insts, stdout, outcome>>
  /\ UNCHANGED staticVars

\* evaluateSet up to the return of evaluate(expr.object)
EvaluateSetExpr ==
  /\ IAt("expr", "SetExpr")
  /\ LET n == Head(kont).n IN
       kont' = <<KTask("expr", N(n).a, 0), KTask("setValue", n, 0)>> \o Tail(kont)
  /\ UNCHANGED <<environment, envs, funs, classes, insts, vals, signal, stdout, outcome>>
  /\ UNCHANGED staticVars

\* evaluateSet after the object was evaluated: the check, then the value
EvaluateSetExprValue ==
  /\ IAt("setValue", "")
  /\ LET n == Head(kont).n IN
       IF Head(vals).t # "LoxInstance"
       THEN Deliver(Throw(RuntimeError("Only instances have fields.")), Tail(kont), Tail(vals))
       ELSE /\ kont' = <<KTask("expr", N(n).b, 0), KTask("set", n, 0)>> \o Tail(kont)
            /\ UNCHANGED <<vals, signal>>
  /\ UNCHANGED <<environment, envs, funs, classes, insts, stdout, outcome>>
  /\ UNCHANGED staticVars

\* evaluateSet after the value was evaluated, with LoxInstance.set
EvaluateSetExprSet ==
  /\ IAt("set", "")
  /\ LET value == vals[1]
         object == vals[2]
     IN /\ insts' = [insts EXCEPT ![object.n].fields = ObjectSet(@, N(Head(kont).n).name, value)]
        /\ vals' = <<value>> \o Tail(Tail(vals))
  /\ kont' = Tail(kont)
  /\ UNCHANGED <<environment, envs, funs, classes, signal, stdout, outcome>>
  /\ UNCHANGED staticVars

EvaluateThisExpr ==
  /\ IAt("expr", "ThisExpr")
  /\ LET n == Head(kont).n IN
       Deliver(lookUpVariable(envs, environment, locals, N(n).name, n), Tail(kont), vals)
  /\ UNCHANGED <<environment, envs, funs, classes, insts, stdout, outcome>>
  /\ UNCHANGED staticVars

\* the case SuperExpr: a read of .findMethod of undefined or null, or a call of
\* a findMethod that no class has, is the host's TypeError
EvaluateSuperExpr ==
  /\ IAt("expr", "SuperExpr")
  /\ LET n == Head(kont).n
         distance == IF n \in DOMAIN locals THEN locals[n] ELSE 1
         superclass == getAt(envs, environment, distance, "SuperExpr")
         object == getAt(envs, environment, distance - 1, "ThisExpr")
         method == findMethod(classes, superclass.v.n, N(n).op)
     IN IF superclass.sig.kind # "none"
        THEN Deliver(superclass, Tail(kont), vals) /\ UNCHANGED <<envs, funs>>
        ELSE IF object.sig.kind # "none"
        THEN Deliver(object, Tail(kont), vals) /\ UNCHANGED <<envs, funs>>
        ELSE IF superclass.v.t # "LoxClass"
        THEN Deliver(Throw(TypeError), Tail(kont), vals) /\ UNCHANGED <<envs, funs>>
        ELSE IF method = 0
        THEN /\ Deliver(Throw(RuntimeError("Indefined property '" \o N(n).op \o "'.")),
                        Tail(kont), vals)
             /\ UNCHANGED <<envs, funs>>
        ELSE /\ envs' = Append(envs, bindEnv(funs, method, object.v))
             /\ funs' = Append(funs, bindFun(envs, funs, method))
             /\ Deliver(Ok(FunVal(Len(funs) + 1)), Tail(kont), vals)
  /\ UNCHANGED <<environment, classes, insts, stdout, outcome>>
  /\ UNCHANGED staticVars

Evaluate ==
  \/ EvaluateLiteralExpr
  \/ EvaluateLogicalExpr
  \/ EvaluateLogicalExprRight
  \/ EvaluateGroupingExpr
  \/ EvaluateUnaryExpr
  \/ EvaluateUnaryExprApply
  \/ EvaluateBinaryExpr
  \/ EvaluateBinaryExprApply
  \/ EvaluateVariableExpr
  \/ EvaluateAssignExpr
  \/ EvaluateAssignExprStore
  \/ EvaluateCallExpr
  \/ EvaluateCallExprThrow
  \/ LoxFunctionCall
  \/ LoxFunctionCallEnd
  \/ LoxClassCall
  \/ LoxClassCallEnd
  \/ ClockCall
  \/ EvaluateGetExpr
  \/ EvaluateGetExprGet
  \/ EvaluateSetExpr
  \/ EvaluateSetExprValue
  \/ EvaluateSetExprSet
  \/ EvaluateThisExpr
  \/ EvaluateSuperExpr

(***************************************************************************)
(* An exception in flight                                                  *)
(***************************************************************************)
Throwing == phase = "interpret" /\ signal.kind # "none" /\ kont # <<>>

\* an evaluateBlock without its finally: an exception leaves the environment of
\* the block current
UnwindBlockNoRestore ==
  /\ Throwing
  /\ Head(kont).k = "endBlock"
  /\ kont' = Tail(kont)
  /\ UNCHANGED <<environment, envs, funs, classes, insts, vals, signal, stdout, outcome>>
  /\ UNCHANGED staticVars

\* the finally of evaluateBlock on the way of an exception
UnwindBlock ==
  /\ Throwing
  /\ Head(kont).k = "endBlock"
  /\ environment' = Head(kont).m
  /\ kont' = Tail(kont)
  /\ UNCHANGED <<envs, funs, classes, insts, vals, signal, stdout, outcome>>
  /\ UNCHANGED staticVars

\* the catch of LoxFunction.call for a Return: the values of the expressions the
\* exception left unfinished are gone with their calls
CatchReturn ==
  /\ Throwing
  /\ Head(kont).k = "return"
  /\ signal.kind = "Return"
  /\ LET below == SubSeq(vals, Len(vals) - Head(kont).m + 1, Len(vals))
         c == callResult(envs, funs, Head(kont).n, signal.value)
     IN /\ kont' = Tail(kont)
        /\ vals' = IF c.sig.kind = "none" THEN <<c.v>> \o below ELSE below
        /\ signal' = c.sig
  /\ UNCHANGED <<environment, envs, funs, classes, insts, stdout, outcome>>
  /\ UNCHANGED staticVars

\* a call on the way that swallows the exception: execution goes on after it
UnwindSwallow ==
  /\ Throwing
  /\ Head(kont).k # "endBlock"
  /\ ~(Head(kont).k = "return" /\ signal.kind = "Return")
  /\ kont' = Tail(kont)
  /\ signal' = NoSignal
  /\ UNCHANGED <<environment, envs, funs, classes, insts, vals, stdout, outcome>>
  /\ UNCHANGED staticVars

\* every other call on the way has no handler for the exception (the catch of
\* LoxFunction.call throws anything that is no Return again)
Unwind ==
  /\ Throwing
  /\ Head(kont).k # "endBlock"
  /\ ~(Head(kont).k = "return" /\ signal.kind = "Return")
  /\ kont' = Tail(kont)
  /\ UNCHANGED <<environment, envs, funs, classes, insts, vals, signal, stdout, outcome>>
  /\ UNCHANGED staticVars

(***************************************************************************)
(* lox.ts: run() and runPrompt(), and Interpreter.interpret                *)
(***************************************************************************)
\* new Scanner(source): the cursor of a scan that has not started
NewScanner(src) ==
  /\ source' = src
  /\ start' = 0
  /\ current' = 0
  /\ line' = 1
  /\ tokens' = <<>>

\* new Resolver(): no scope is open and no function or class is being resolved
NewResolver ==
  /\ scopes' = <<>>
  /\ currentFunction' = "none"
  /\ currentClass' = "none"

\* run() without its first gate: the resolver starts whatever was reported
RunParsedUngated ==
  /\ phase = "parse"
  /\ pid # 0
  /\ Report(Programs[pid].errors)
  /\ ast' = ast @@ [n \in ProgramNodes(pid) |-> Nodes[n]]
  /\ phase' = "resolve"
  /\ outcome' = outcome
  /\ NewResolver
  /\ rstack' = StmtTasks(Body(pid))
  /\ UNCHANGED <<mode, lineNo, scannerVars, parserVars, pid, locals, visits, environment, envs, funs, classes,
                 insts, kont, vals, signal, stdout>>

\* run() from parser.parse() to the first gate: the parser reports its
\* diagnostics, then `if (getHadError() || !statements) return`, else a new
\* resolver starts on the statements
RunParsed ==
  /\ phase = "parse"
  /\ pid # 0
  /\ Report(Programs[pid].errors)
  /\ ast' = ast @@ [n \in ProgramNodes(pid) |-> Nodes[n]]
  /\ IF hadError \/ Len(Programs[pid].errors) > 0
     THEN /\ phase' = "done"
          /\ outcome' = "notParsed"
          /\ UNCHANGED <<scopes, currentFunction, currentClass, rstack>>
     ELSE /\ phase' = "resolve"
          /\ outcome' = outcome
          /\ NewResolver
          /\ rstack' = StmtTasks(Body(pid))
  /\ UNCHANGED <<mode, lineNo, scannerVars, parserVars, pid, locals, visits, environment, envs, funs, classes,
                 insts, kont, vals, signal, stdout>>

\* run() after resolveStatements returned: `if (getHadError()) return`, else
\* interpret(statements) starts its loop over the statements
RunResolved ==
  /\ phase = "resolve"
  /\ rstack = <<>>
  /\ IF hadError
     THEN phase' = "done" /\ outcome' = "notResolved" /\ kont' = kont
     ELSE phase' = "interpret" /\ outcome' = outcome /\ kont' = StmtKTasks(Body(pid))
  /\ UNCHANGED <<driverVars, scannerVars, parserVars, pid, hadError, stderr, scopes, currentFunction,
                 currentClass, rstack, locals, visits, environment, envs, funs, classes,
                 insts, vals, signal, stdout>>

\* interpret: the loop ended
InterpretEnd ==
  /\ phase = "interpret"
  /\ kont = <<>>
  /\ signal.kind = "none"
  /\ phase' = "done"
  /\ outcome' = "completed"
  /\ UNCHANGED <<driverVars, scannerVars, parserVars, pid, hadError, stderr, scopes, currentFunction,
                 currentClass, rstack, locals, visits, environment, envs, funs, classes,
                 insts, kont, vals, signal, stdout>>

\* interpret: catch (e) with e instanceof RuntimeError
InterpretCatch ==
  /\ phase = "interpret"
  /\ kont = <<>>
  /\ signal.kind = "RuntimeError"
  /\ phase' = "done"
  /\ outcome' = "runtimeError"
  /\ runtimeError(signal)
  /\ signal' = NoSignal
  /\ vals' = <<>>
  /\ UNCHANGED <<driverVars, scannerVars, parserVars, pid, hadError, scopes, currentFunction,
                 currentClass, rstack, locals, visits, environment, envs, funs, classes,
                 insts, kont, stdout>>

\* interpret: catch (e) with any other e, which is thrown again; nothing in
\* run() or above it catches it
InterpretRethrow ==
  /\ phase = "interpret"
  /\ kont = <<>>
  /\ signal.kind \in {"Return", "TypeError"}
  /\ phase' = "done"
  /\ outcome' = "uncaught"
  /\ UNCHANGED <<driverVars, scannerVars, parserVars, pid, hadError, stderr, scopes, currentFunction,
                 currentClass, rstack, locals, visits, environment, envs, funs, classes,
                 insts, kont, vals, signal, stdout>>

\* runPrompt, the "line" listener after run(input) returned: setHadError(false)
\* and rl.prompt(); an exception that left run() never gets here
RunPromptReset ==
  /\ mode = "prompt"
  /\ phase = "done"
  /\ outcome # "uncaught"
  /\ hadError' = FALSE
  /\ phase' = "prompt"
  /\ UNCHANGED <<driverVars, scannerVars, parserVars, pid, stderr, scopes, currentFunction,
                 currentClass, rstack, locals, visits, interpreterVars>>

\* runPrompt, the "line" listener called with the next line: run(input) makes a
\* scanner for it; the interpreter's module state is the one the earlier lines
\* left
RunPromptLine ==
  /\ mode = "prompt"
  /\ phase = "prompt"
  /\ lineNo < MaxLines
  /\ \E p \in PromptLines :
       /\ pid' = p
       /\ NewScanner(Programs[p].source)
       /\ visits' = [n \in ProgramNodes(p) |-> 0]
  /\ lineNo' = lineNo + 1
  /\ phase' = "scan"
  /\ outcome' = ""
  /\ UNCHANGED <<mode, ast, parserVars, hadError, stderr, scopes, currentFunction, currentClass, rstack,
                 locals, environment, envs, funs, classes, insts, kont, vals, signal,
                 stdout>>


(***************************************************************************)
(* The program's text, for the statements of the properties                *)
(***************************************************************************)
Range(f) == {f[i] : i \in DOMAIN f}
Running(p) == Programs[pid] = p

\* the children of node n, and the nodes of the subtree of n
Children(n) == ({N(n).a, N(n).b, N(n).c} \cup Range(N(n).list)) \ {0}
RECURSIVE Subtree(_)
Subtree(n) == {n} \cup UNION {Subtree(c) : c \in Children(n)}
AllNodes == ProgramNodes(pid) \cap DOMAIN ast
\* the function statements (functions and methods) that n lies in
EnclosingFunctions(n) ==
  {f \in AllNodes : N(f).type = "FunctionStmt" /\ n \in Subtree(f) /\ n # f}

\* run() is past resolveStatements
Resolved ==
  \/ phase = "resolve" /\ rstack = <<>>
  \/ phase = "interpret"
  \/ phase \in {"done", "prompt"} /\ outcome # "notParsed"

\* the interpreter is about to evaluate a node of the given type
Evaluating(type) ==
  /\ phase = "interpret"
  /\ signal.kind = "none"
  /\ kont # <<>>
  /\ Head(kont).k = "expr"
  /\ N(Head(kont).n).type = type

(***************************************************************************)
(* C1: the resolver takes every node of the program exactly once, so when  *)
(* it has finished every Variable or Assign node that names a parameter of *)
(* a function it lies in (a name declared in an enclosing local scope) has *)
(* a depth in the interpreter's side table.                                *)
(***************************************************************************)
C1_ResolverVisitsEveryNode ==
  Resolved =>
    /\ \A n \in AllNodes : visits[n] = 1
    /\ \A n \in AllNodes :
         (/\ N(n).type \in {"VariableExpr", "AssignExpr"}
          /\ \E f \in EnclosingFunctions(n) : N(n).name \in Range(N(f).params))
         => n \in DOMAIN locals

(***************************************************************************)
(* C2: the depth resolveLocal records for a node is the distance from the  *)
(* top of the scope stack to the innermost scope that has the name.        *)
(***************************************************************************)
ScopesWith(sc, name) == {i \in 1..Len(sc) : name \in DOMAIN sc[i]}
Innermost(sc, name) == CHOOSE i \in ScopesWith(sc, name) : \A j \in ScopesWith(sc, name) : j <= i
C2_InnermostScopeWins ==
  [][\A n \in DOMAIN locals' :
       (n \notin DOMAIN locals) =>
         locals'[n] = Len(scopes) - Innermost(scopes, N(n).name)]_vars

RECURSIVE BoundFrame(_, _)
BoundFrame(es, e) ==
  IF e = 0 THEN 0
  ELSE IF "ThisExpr" \in DOMAIN es[e].values THEN e
  ELSE BoundFrame(es, es[e].enclosing)
C4_ThisIsTheInstance ==
  Evaluating("ThisExpr") =>
    LET n == Head(kont).n
        frame == BoundFrame(envs, environment)
        got == lookUpVariable(envs, environment, locals, N(n).name, n)
    IN /\ n \in DOMAIN locals
       /\ frame # 0
       /\ ancestor(envs, environment, locals[n]) = frame
       /\ got.sig.kind = "none"
       /\ got.v = envs[frame].values["ThisExpr"]
       /\ got.v.t = "LoxInstance"

(***************************************************************************)
(* C5: whenever the interpreter evaluates a Super node, the node has a     *)
(* recorded depth d, the frame d steps out holds the superclass and the    *)
(* frame d - 1 steps out the instance; and the program ProgSuper prints A  *)
(* and then B.                                                             *)
(***************************************************************************)
C5_SuperDispatch ==
  /\ Evaluating("SuperExpr") =>
       LET n == Head(kont).n IN
         /\ n \in DOMAIN locals
         /\ getAt(envs, environment, locals[n], "SuperExpr").v.t = "LoxClass"
         /\ getAt(envs, environment, locals[n] - 1, "ThisExpr").v.t = "LoxInstance"
  /\ (phase = "done" /\ Running(ProgSuper)) =>
       /\ outcome = "completed"
       /\ stdout = <<StrVal("A"), StrVal("B")>>

(***************************************************************************)
(* C6: a call of a class with M arguments goes through iff M is the arity  *)
(* of the init method that findMethod finds (0 when there is none), and    *)
(* otherwise throws "Expected N arguments but got M." with that arity N;   *)
(* the program ProgCounter prints 5.                                       *)
(***************************************************************************)
InitArity(c) ==
  LET initializer == findMethod(classes, c, "init") IN
    IF initializer = 0 THEN 0 ELSE LoxFunctionArity(initializer)
C6_ClassCallArity ==
  /\ (/\ phase = "interpret"
      /\ signal.kind = "none"
      /\ kont # <<>>
      /\ Head(kont).k = "call"
      /\ Callee.t = "LoxClass") =>
       CallError = IF CallArgc = InitArity(Callee.n) THEN NoSignal
                   ELSE RuntimeError("Expected " \o ToString(InitArity(Callee.n))
                                     \o " arguments but got " \o ToString(CallArgc) \o ".")
  /\ (phase = "done" /\ Running(ProgCounter)) =>
       /\ outcome = "completed"
       /\ stdout = <<NumVal(5)>>

(***************************************************************************)
(* C7: the three calls of the closure of ProgClosure print 1, 2 and 3: the *)
(* function returned by make() keeps the frame of its declaration, and its *)
(* reads and assignments of i go to that frame's slot.                     *)
(***************************************************************************)
C7_ClosureCounter ==
  (phase = "done" /\ Running(ProgClosure)) =>
    /\ outcome = "completed"
    /\ stdout = <<NumVal(1), NumVal(2), NumVal(3)>>

(***************************************************************************)
(* C8: the example of the README, ProgReadme, prints 3 and raises no       *)
(* runtime error.                                                          *)
(***************************************************************************)
C8_ReadmeExample ==
  (phase = "done" /\ Running(ProgReadme)) =>
    /\ outcome = "completed"
    /\ stderr = <<>>
    /\ stdout = <<NumVal(3)>>

(***************************************************************************)
(* C9: a name read inside a function body is bound to the declaration that *)
(* is visible where the function is declared: ProgLexical prints global    *)
(* (the later var of the block changes nothing), and ProgShadowFun, whose  *)
(* function is declared under the inner of two declarations of a, prints   *)
(* inner.                                                                  *)
(***************************************************************************)
C9_LexicalScoping ==
  /\ (phase = "done" /\ Running(ProgLexical)) =>
       /\ outcome = "completed"
       /\ stdout = <<StrVal("global")>>
  /\ (phase = "done" /\ Running(ProgShadowFun)) =>
       /\ outcome = "completed"
       /\ stdout = <<StrVal("inner")>>

(***************************************************************************)
(* C10: for a program with a return statement outside every function the  *)
(* resolver reports "Cannot return from top-level code." and sets          *)
(* hadError, the program is not executed, and no Return ever reaches the   *)
(* loop of interpret.                                                      *)
(***************************************************************************)
TopLevelReturns == {n \in AllNodes : N(n).type = "ReturnStmt" /\ EnclosingFunctions(n) = {}}
C10_TopLevelReturnRejected ==
  /\ (Resolved /\ TopLevelReturns # {}) =>
       /\ hadError
       /\ "Cannot return from top-level code." \in Range(stderr)
       /\ phase # "interpret"
       /\ stdout = <<>>
  /\ ~(phase = "interpret" /\ kont = <<>> /\ signal.kind = "Return")

(***************************************************************************)
(* C11: when the resolver has finished a program in which a return with a  *)
(* value stands directly in a method named init, it has reported "Cannot   *)
(* return a value from an initializer." and set hadError; for              *)
(* ProgInitBareReturn, whose init has a bare return, it has reported       *)
(* nothing.                                                                *)
(***************************************************************************)
\* the innermost function statement that n lies in (0 when there is none)
InnermostFunction(n) ==
  IF EnclosingFunctions(n) = {} THEN 0
  ELSE CHOOSE f \in EnclosingFunctions(n) :
         \A g \in EnclosingFunctions(n) : g \in Subtree(f) => g = f
IsMethod(f) == \E c \in AllNodes : N(c).type = "ClassStmt" /\ f \in Range(N(c).list)
InitializerValueReturns ==
  {n \in AllNodes :
     /\ N(n).type = "ReturnStmt"
     /\ N(n).a # 0
     /\ InnermostFunction(n) # 0
     /\ IsMethod(InnermostFunction(n))
     /\ N(InnermostFunction(n)).name = "init"}
C11_InitializerReturn ==
  /\ (Resolved /\ InitializerValueReturns # {}) =>
       /\ hadError
       /\ "Cannot return a value from an initializer." \in Range(stderr)
  /\ (Resolved /\ Running(ProgInitBareReturn)) =>
       /\ ~hadError
       /\ stderr = <<>>

(***************************************************************************)
(* C12: whenever evaluateCall has a callee that is not a function, a class *)
(* or a native function, it throws the RuntimeError "Can only call         *)
(* functions and classes"; the run of ProgCallNil ends with that error     *)
(* reported by interpret, not with an exception that escapes it.           *)
(***************************************************************************)
AtCall ==
  /\ phase = "interpret"
  /\ signal.kind = "none"
  /\ kont # <<>>
  /\ Head(kont).k = "call"
C12_CallOfNonCallable ==
  /\ (AtCall /\ Callee.t \notin {"LoxFunction", "LoxClass", "native"}) =>
       CallError = RuntimeError("Can only call functions and classes")
  /\ (phase = "done" /\ Running(ProgCallNil)) =>
       /\ outcome = "runtimeError"
       /\ stderr = <<"Can only call functions and classes">>

(***************************************************************************)
(* C13: the current environment is restored on every exit path.  Whenever  *)
(* the interpreter stands between two statements of a statement list, or   *)
(* at the end of one, the current environment is the frame that list runs  *)
(* in (the env given to evaluateBlock, the globals for the list of         *)
(* interpret): every block, call and class statement that ran inside a     *)
(* statement of the list, and ended normally or by a return, left the      *)
(* pointer where it found it.  When an exception has unwound to interpret, *)
(* and when the run is over, the current environment is the globals.       *)
(***************************************************************************)
\* the position in kont of the first task that is no pending statement
RECURSIVE FirstNonStmt(_, _)
FirstNonStmt(k, i) ==
  IF i > Len(k) THEN 0
  ELSE IF k[i].k # "stmt" THEN i
  ELSE FirstNonStmt(k, i + 1)
\* the interpreter stands in the statement list of interpret or of a call of
\* evaluateBlock, before one of its statements or after the last of them
BetweenStatements ==
  /\ phase = "interpret"
  /\ signal.kind = "none"
  /\ LET i == FirstNonStmt(kont, 1) IN i = 0 \/ kont[i].k = "endBlock"
\* the frame that statement list runs in
ListFrame ==
  LET i == FirstNonStmt(kont, 1) IN IF i = 0 THEN 1 ELSE kont[i].n
C13_EnvironmentRestored ==
  /\ BetweenStatements => environment = ListFrame
  /\ (phase = "interpret" /\ kont = <<>>) => environment = 1
  /\ phase = "done" => environment = 1

\* the statements of a block have ended, after a class statement with a
\* superclass and calls that ended by a return ran in them
C13_Witness ==
  /\ BetweenStatements
  /\ kont # <<>>
  /\ Head(kont).k = "endBlock"
  /\ ListFrame # 1
  /\ \E e \in 1..Len(envs) : "SuperExpr" \in DOMAIN envs[e].values
  /\ stdout # <<>>

(***************************************************************************)
(* C14: a runtime error ends the run: from the throw on nothing is         *)
(* executed or printed and the exception only travels up, interpret's      *)
(* catch reports it exactly once and hands control back to run(), and the  *)
(* interpreter is left usable: the current environment is the globals      *)
(* frame, no binding is lost on the way, and a later line at the prompt    *)
(* reads a global that was defined before the error.                       *)
(***************************************************************************)
PlusMessage == "Operands must be two numbers or two strings."

\* the run of `print g;` at the prompt has ended, after the line that defined g
\* and then failed
ReadAfterError ==
  /\ mode = "prompt"
  /\ phase = "done"
  /\ Running(ProgReadG)
  /\ PlusMessage \in Range(stderr)

C14_Step ==
  /\ (phase = "interpret" /\ signal.kind = "RuntimeError") =>
       /\ stdout' = stdout
       /\ envs' = envs
       /\ IF kont = <<>>
          THEN /\ phase' = "done"
               /\ outcome' = "runtimeError"
               /\ stderr' = Append(stderr, signal.message)
               /\ signal' = NoSignal
               /\ environment' = 1
          ELSE /\ phase' = "interpret"
               /\ stderr' = stderr
               /\ signal' = signal
               /\ Len(kont') < Len(kont)
  /\ (phase \in {"done", "prompt"} /\ outcome = "runtimeError") =>
       /\ envs' = envs
       /\ environment' = 1
       /\ stdout' = stdout
       /\ stderr' = stderr
  /\ ReadAfterError' =>
       /\ outcome' = "completed"
       /\ stdout' # <<>>
       /\ stdout'[Len(stdout')] = StrVal("kept")

C14_RuntimeErrorEndsRun == [][C14_Step]_vars

C14_Witness ==
  /\ ReadAfterError
  /\ lineNo = 2
  /\ environment = 1
  /\ stdout = <<StrVal("kept")>>

(***************************************************************************)
(* C15: execution is gated on hadError.  Once a scan or parse diagnostic   *)
(* was reported run() returns at its first gate and neither the resolver   *)
(* nor the interpreter starts; once a resolver diagnostic was reported it  *)
(* returns at its second gate and the interpreter does not start; while    *)
(* hadError is set nothing of the interpreter moves: no statement runs and *)
(* nothing is printed.                                                     *)
(***************************************************************************)
C15_Step ==
  /\ (phase \in {"scan", "string"} /\ hadError) => phase' \in {"scan", "string", "parse"}
  /\ (phase = "parse" /\ hadError') =>
       /\ phase' = "done"
       /\ outcome' = "notParsed"
       /\ UNCHANGED <<rstack, locals, visits>>
  /\ (phase = "resolve" /\ hadError) => phase' \in {"resolve", "done"}
  /\ (phase = "resolve" /\ phase' = "done") => (hadError /\ outcome' = "notResolved")
  /\ (hadError \/ hadError') => UNCHANGED <<environment, envs, funs, classes, insts, kont, vals, stdout>>
  /\ phase' = "interpret" => ~hadError'
  /\ (phase' = "done" /\ hadError') => outcome' \in {"notParsed", "notResolved"}

C15_GatedOnHadError == [][C15_Step]_vars

\* run() returned at its first gate for a source with a scan error, at its
\* second for one with a resolver error
C15_Witness ==
  /\ phase = "done"
  /\ hadError
  /\ stdout = <<>>
  /\ \/ Running(ProgScanError) /\ outcome = "notParsed" /\ AllNodes # {}
     \/ Running(ProgSelfInit) /\ outcome = "notResolved"

(***************************************************************************)
(* Claims about the scanner                                                *)
(***************************************************************************)
\* the number of newline characters of src at the positions from .. to - 1
RECURSIVE Newlines(_, _, _)
Newlines(src, from, to) ==
  IF from >= to \/ from >= Len(src) THEN 0
  ELSE (IF charAt(src, from) = "\n" THEN 1 ELSE 0) + Newlines(src, from + 1, to)

\* the line of position i of src
LineOf(src, i) == 1 + Newlines(src, 0, i)
LastToken == tokens[Len(tokens)]

(***************************************************************************)
(* C17: an unterminated string.  When the loop of string() gets to the end *)
(* of the source the scanner leaves it, reports "Unterminated string."     *)
(* with the line of the opening quote and adds no token; and the tokens    *)
(* scanTokens returns end with EOF.                                        *)
(***************************************************************************)
C17_Step ==
  /\ (phase = "string" /\ isAtEnd) =>
       /\ phase' = "scan"
       /\ hadError'
       /\ stderr' = Append(stderr, "[line " \o ToString(LineOf(source, start))
                                   \o "] Error : Unterminated string.")
       /\ tokens' = tokens
  /\ phase' = "parse" => LastToken'.type = "EOF"

C17_UnterminatedString == [][C17_Step]_vars

(***************************************************************************)
(* C18: the token list scanTokens returns is never empty, has exactly one  *)
(* EOF token, which is its last element, and the line of that token is 1   *)
(* plus the number of newline characters of the source.                    *)
(***************************************************************************)
C18_EndsWithOneEOF ==
  phase = "parse" =>
    /\ tokens # <<>>
    /\ {i \in DOMAIN tokens : tokens[i].type = "EOF"} = {Len(tokens)}
    /\ LastToken.line = LineOf(source, Len(source))

\* scanTokens returned for a source with a newline inside a string and one
\* outside
C18_Witness ==
  /\ phase = "parse"
  /\ \E i \in DOMAIN tokens : tokens[i].type = "STRING" /\ tokens[i].literal = StrVal("\n")
  /\ LastToken.line = 3

(***************************************************************************)
(* C19: every token carries the line its first character is on, a STRING   *)
(* token with newlines inside the line of its opening quote, and the line  *)
(* counter follows the cursor, so that the tokens after such a string get  *)
(* the later lines.                                                        *)
(***************************************************************************)
C19_Step ==
  /\ (Len(tokens') = Len(tokens) + 1 /\ phase' # "parse") =>
       LastToken'.line = LineOf(source, start')
  /\ phase' = "scan" => line' = LineOf(source, current')

C19_TokenLineIsFirstLine == [][C19_Step]_vars

(***************************************************************************)
(* C16: at the prompt hadError is cleared after every line, and a line     *)
(* with a scan, parse or resolve error never keeps a later line from       *)
(* running: its run returns, the next line starts with hadError false, and *)
(* a line without such an error is executed.                               *)
(***************************************************************************)
\* string() is still in its loop past the end of the source, where peek() is
\* NUL for ever: this run does not return
Hung == phase = "string" /\ current > Len(source)

\* the lines of PromptLines that produce no diagnostic
ErrorFree == Running(ProgReadG) \/ Running(ProgGlobalThenError)

C16_Step ==
  /\ mode = "prompt" =>
       /\ phase = "done" => (phase' = "prompt" /\ ~hadError')
       /\ phase = "prompt" => (phase' = "scan" /\ ~hadError' /\ lineNo' = lineNo + 1)
       /\ (phase' = "done" /\ ErrorFree') => outcome' \in {"completed", "runtimeError"}
       /\ ~Hung'

C16_ErrorsDoNotOutliveTheLine == [][C16_Step]_vars

(***************************************************************************)
(* C20: the assignment rule.  Where the parser has an expression, then `=`,*)
(* then a value it can parse: a Variable on the left becomes an Assign     *)
(* with its name, a Get becomes a Set with its object and name, and for    *)
(* any other left-hand side the parser reports the invalid assignment      *)
(* target at the `=` token (the message of the code ends with a period),   *)
(* throws nothing and returns the left-hand expression as it was.  At the  *)
(* level of the statement: hadError is set, the statement is kept and      *)
(* parse() goes on behind its semicolon without synchronizing.             *)
(***************************************************************************)
\* what the parser is about to parse: the expression before `=`, the token
\* after it, the value after that, and the whole expression
Target == or(tokens, pcurrent)
Equals == parserPeek(tokens, Target.pos)
Value == expression(tokens, Target.pos + 1)
Whole == expression(tokens, pcurrent)
AtAssignment ==
  /\ phase = "parse"
  /\ ~parserIsAtEnd(tokens, pcurrent)
  /\ ~Target.thrown
  /\ Equals.type = "EQUAL"
  /\ ~Value.thrown
InvalidTarget == "[line " \o ToString(Equals.line) \o "] Error  at '=': Invalid assignment target."

C20_Step ==
  AtAssignment =>
    /\ ~Whole.thrown
    /\ Whole.pos = Value.pos
    /\ CASE Target.expr.type = "VariableExpr" ->
              /\ Whole.expr = [type |-> "AssignExpr", name |-> Target.expr.name,
                               value |-> Value.expr]
              /\ Whole.errs = Target.errs \o Value.errs
         [] Target.expr.type = "GetExpr" ->
              /\ Whole.expr = [type |-> "SetExpr", object |-> Target.expr.object,
                               name |-> Target.expr.name, value |-> Value.expr]
              /\ Whole.errs = Target.errs \o Value.errs
         [] OTHER ->
              /\ Whole.expr = Target.expr
              /\ Whole.errs = Target.errs \o Value.errs \o <<InvalidTarget>>
              /\ hadError'
              /\ IF check(tokens, Whole.pos, "SEMICOLON")
                 THEN /\ stderr' = stderr \o Whole.errs
                      /\ phase' = "parse"
                      /\ pcurrent' = Whole.pos + 1
                      /\ pstatements' = Append(pstatements, [type |-> "ExpressionStmt",
                                                             expression |-> Target.expr])
                 ELSE \* the statement lacks its semicolon: that error is thrown
                      /\ stderr' = stderr \o Whole.errs
                                     \o <<tokenError(parserPeek(tokens, Whole.pos),
                                                     "Expect ';' after expression.")>>
                      /\ phase' = "synchronize"

C20_AssignmentRule == [][C20_Step]_vars

\* parse() is past a statement whose left-hand side was a literal or a
\* grouping: the one diagnostic is reported and the statement was pushed
C20_Witness ==
  /\ pid = 0
  /\ hadError
  /\ stderr = <<"[line 1] Error  at '=': Invalid assignment target.">>
  /\ Len(pstatements) = 1
  /\ pstatements[1].expression.type \in {"LiteralExpr", "GroupingExpr"}
  /\ pcurrent = Len(tokens) - 1

SelfInitMessage == "Cannot read local variable in its own initializer."
\* name is declared and not yet defined in the innermost scope of sc
DeclaredOnly(sc, name) ==
  /\ Len(sc) > 0
  /\ name \in DOMAIN peekScopes(sc)
  /\ peekScopes(sc)[name] = FALSE

\* C21: in a local scope a variable with an initializer is declared but not
\* defined while its initializer is resolved and defined right after it; a
\* read of a name that is declared but not defined in the innermost scope
\* reports "Cannot read local variable in its own initializer." and sets
\* hadError, any other read reports nothing; with no scope open (the global
\* scope) neither the declaration nor the read reports anything
C21_Step ==
  /\ (RAt("stmt", "VarStmt") /\ rstack' # rstack)
       => LET n == Head(rstack).n IN
            /\ Len(scopes') = Len(scopes)
            /\ (Len(scopes) > 0 /\ N(n).a # 0)
                 => /\ DeclaredOnly(scopes', N(n).name)
                    /\ Len(rstack') > 1
                    /\ rstack'[1] = RTask("expr", N(n).a, "")
                    /\ rstack'[2] = RTask("define", n, N(n).name)
            /\ Len(scopes) = 0 => (stderr' = stderr /\ hadError' = hadError)
  /\ (RAt("define", "") /\ rstack' # rstack)
       => /\ Len(scopes) > 0 => /\ DeclaredOnly(scopes, Head(rstack).s)
                                /\ peekScopes(scopes')[Head(rstack).s] = TRUE
          /\ Len(scopes) = 0 => scopes' = <<>>
          /\ stderr' = stderr
          /\ hadError' = hadError
  /\ (RAt("expr", "VariableExpr") /\ rstack' # rstack)
       => IF DeclaredOnly(scopes, N(Head(rstack).n).name)
          THEN /\ stderr' = Append(stderr, SelfInitMessage)
               /\ hadError'
          ELSE /\ stderr' = stderr
               /\ hadError' = hadError
C21_DeclareThenDefine == [][C21_Step]_vars
\* `{ var a = a; }` was rejected: the resolver reported the read and the
\* statements were not interpreted
C21_Witness ==
  /\ pid = 21
  /\ mode = "file"
  /\ outcome = "notResolved"
  /\ stderr = <<SelfInitMessage>>
  /\ stdout = <<>>

\* the interpreter is about to apply the operator of a node of the given type
\* to its evaluated operands
Applying(k) ==
  /\ phase = "interpret"
  /\ signal.kind = "none"
  /\ kont # <<>>
  /\ Head(kont).k = k
NumberOperators == {"MINUS", "STAR", "SLASH", "LESS", "LESS_EQUAL", "GREATER", "GREATER_EQUAL"}

\* C22: - * / < <= > >= on operands that are not both numbers raise the
\* runtime error "Operands must be numbers."; unary minus on a non-number
\* raises "Operand must be a number."; + adds two numbers, concatenates two
\* strings and raises "Operands must be two numbers or two strings." for any
\* other operands
C22_Step ==
  /\ (Applying("applyBinary") /\ kont' # kont)
       => LET op == N(Head(kont).n).op
              left == vals[2]
              right == vals[1]
              numbers == left.t = "number" /\ right.t = "number"
          IN /\ (op \in NumberOperators)
                  => IF numbers THEN signal' = NoSignal
                     ELSE signal' = RuntimeError("Operands must be numbers.")
             /\ (op = "PLUS")
                  => IF numbers
                     THEN signal' = NoSignal /\ Head(vals') = NumVal(left.n + right.n)
                     ELSE IF left.t = "string" /\ right.t = "string"
                     THEN signal' = NoSignal /\ Head(vals') = StrVal(left.s \o right.s)
                     ELSE signal' = RuntimeError("Operands must be two numbers or two strings.")
  /\ (Applying("applyUnary") /\ kont' # kont /\ N(Head(kont).n).op = "MINUS")
       => IF Head(vals).t = "number" THEN signal' = NoSignal
          ELSE signal' = RuntimeError("Operand must be a number.")
C22_OperandTyping == [][C22_Step]_vars

\* the names the frames hold, frame by frame
Names(es) == [e \in DOMAIN es |-> DOMAIN es[e].values]
\* the frames whose contents differ between es and fs
Changed(es, fs) == {e \in DOMAIN es : es[e] # fs[e]}

\* C23: an assignment to a name that has no recorded depth and is not in the
\* globals raises "Undefined variable '<n>'." and changes no frame; an
\* assignment that succeeds changes one slot that existed, and no assignment
\* adds a name to a frame
C23_Step ==
  (Applying("assign") /\ kont' # kont)
    => LET n == Head(kont).n
           name == N(n).name
       IN /\ DOMAIN envs' = DOMAIN envs
          /\ Names(envs') = Names(envs)
          /\ (n \notin DOMAIN locals /\ name \notin DOMAIN envs[1].values)
               => /\ signal' = RuntimeError("Undefined variable '" \o name \o "'.")
                  /\ envs' = envs
          /\ (signal' = NoSignal)
               => \E e \in DOMAIN envs :
                    /\ Changed(envs, envs') \subseteq {e}
                    /\ name \in DOMAIN envs[e].values
                    /\ envs'[e] = [envs[e] EXCEPT !.values[name] = Head(vals)]
C23_AssignNeverCreates == [][C23_Step]_vars

\* the tokens a statement can begin with, at which synchronize() stops
StatementKeywords == {"CLASS", "FUN", "VAR", "FOR", "IF", "WHILE", "PRINT", "RETURN"}
\* a position synchronize() may stop at: the end, after a semicolon, or before
\* a keyword that begins a statement
Synchronized(toks, pos) ==
  \/ parserIsAtEnd(toks, pos)
  \/ pos > 0 /\ toks[pos].type = "SEMICOLON"
  \/ parserPeek(toks, pos).type \in StatementKeywords
\* no list of statements in the node has a null entry
RECURSIVE NoNullEntries(_)
NoNullEntries(node) ==
  CASE node.type = "BlockStmt" ->
         \A i \in DOMAIN node.statements :
           node.statements[i].type # "none" /\ NoNullEntries(node.statements[i])
    [] node.type = "FunctionStmt" ->
         \A i \in DOMAIN node.body : node.body[i].type # "none" /\ NoNullEntries(node.body[i])
    [] node.type = "ClassStmt" -> \A i \in DOMAIN node.methods : NoNullEntries(node.methods[i])
    [] node.type = "IfStmt" ->
         /\ NoNullEntries(node.thenBranch)
         /\ node.elseBranch.type = "none" \/ NoNullEntries(node.elseBranch)
    [] node.type = "WhileStmt" -> NoNullEntries(node.body)
    [] OTHER -> TRUE
\* a declaration of parse() failed and synchronize() is about to run
Failed == phase = "synchronize" /\ phase' = "parse"
\* what C24 says of the stop of synchronize() and of the statement list, in a
\* step of the parser and at every position synchronize() can be called at
C24_Recovery ==
  /\ Failed => /\ Synchronized(tokens, pcurrent')
               /\ pstatements' = pstatements
  /\ (phase = "parse" /\ phase' = "synchronize") => pstatements' = pstatements
  /\ \A pos \in 0..(Len(tokens) - 1) : Synchronized(tokens, synchronize(tokens, pos))
  /\ \A i \in DOMAIN pstatements' :
       pstatements'[i].type # "none" /\ NoNullEntries(pstatements'[i])
  /\ (phase' = "done") => parserIsAtEnd(tokens, pcurrent')

\* C24 as stated: after a declaration failed, synchronize discards at least
\* one token and stops only at EOF, after a `;` or before class, fun, var,
\* for, if, while, print or return; the failed declaration adds no element to
\* the statement list, no list has a null entry, and parsing goes on with the
\* next declaration until EOF
C24_Stated ==
  /\ C24_Recovery
  /\ Failed => pcurrent' > pcurrent
C24_PanicModeAsStated == [][C24_Stated]_vars

\* C24, amended: synchronize discards at least one token unless the
\* declaration failed at EOF, where it discards none; the rest as stated
C24_Amended ==
  /\ C24_Recovery
  /\ Failed => IF parserIsAtEnd(tokens, pcurrent) THEN pcurrent' = pcurrent
               ELSE pcurrent' > pcurrent
C24_PanicMode == [][C24_Amended]_vars
\* a declaration failed, synchronize() stopped before a print that is not
\* after a semicolon, and parse() is about to parse the print statement
C24_Witness ==
  /\ phase = "parse"
  /\ hadError
  /\ pcurrent > 0
  /\ tokens[pcurrent].type \notin {"SEMICOLON", "RIGHT_BRACE"}
  /\ parserPeek(tokens, pcurrent).type = "PRINT"

\* a call of a function is about to return: its body ended (no exception) or
\* threw a Return
Returning ==
  /\ phase = "interpret"
  /\ kont # <<>>
  /\ Head(kont).k = "return"
  /\ signal.kind \in {"none", "Return"}
\* the value the body handed to the call: that of the return, nil without one
Returned == IF signal.kind = "Return" THEN signal.value ELSE NilVal

\* C25: a call of an initializer returns the instance its closure frame holds
\* as `this`, whether the body ended or returned, whatever the return carried;
\* a call of any other function returns the value of the return, nil for a
\* bare return or a body that ended
C25_Step ==
  (Returning /\ kont' # kont)
    => LET f == funs[Head(kont).n] IN
         /\ signal' = NoSignal
         /\ vals' # <<>>
         /\ IF f.isInitializer
            THEN /\ "ThisExpr" \in DOMAIN envs[f.closure].values
                 /\ envs[f.closure].values["ThisExpr"].t = "LoxInstance"
                 /\ Head(vals') = envs[f.closure].values["ThisExpr"]
            ELSE Head(vals') = Returned
C25_CallResult == [][C25_Step]_vars
\* init was called on an instance three times: its `return 5;`, its `return;`
\* and its end each returned the instance
C25_Witness ==
  /\ pid = 37
  /\ outcome = "completed"
  /\ stdout = <<BoolVal(TRUE), BoolVal(TRUE), BoolVal(TRUE)>>

\* C26: a read of obj.name on an instance returns the field name of the
\* instance if it has one, a field coming before a method; else the method
\* findMethod finds on the class and its superclasses, as a new function bound
\* to the instance; else it raises "Undefined property '<name>'."; on a value
\* that is not an instance it raises "Only instances have properties."  A set
\* on an instance leaves the instance with the field holding the value, and
\* returns the value
C26_Step ==
  /\ (Applying("get") /\ kont' # kont)
       => LET name == N(Head(kont).n).name
              obj == Head(vals)
          IN IF obj.t # "LoxInstance"
             THEN signal' = RuntimeError("Only instances have properties.")
             ELSE IF name \in DOMAIN insts[obj.n].fields
             THEN /\ signal' = NoSignal
                  /\ Head(vals') = insts[obj.n].fields[name]
                  /\ funs' = funs
             ELSE IF findMethod(classes, insts[obj.n].klass, name) # 0
             THEN LET method == funs[findMethod(classes, insts[obj.n].klass, name)]
                      bound == funs'[Len(funs')]
                  IN /\ signal' = NoSignal
                     /\ Len(funs') = Len(funs) + 1
                     /\ Head(vals') = FunVal(Len(funs'))
                     /\ bound.declaration = method.declaration
                     /\ bound.closure = Len(envs')
                     /\ Len(envs') = Len(envs) + 1
                     /\ envs'[bound.closure].enclosing = method.closure
                     /\ envs'[bound.closure].values["ThisExpr"] = obj
             ELSE signal' = RuntimeError("Undefined property '" \o name \o "'.")
  /\ (Applying("set") /\ kont' # kont)
       => LET name == N(Head(kont).n).name
              value == vals[1]
              object == vals[2]
          IN /\ object.t = "LoxInstance"
             /\ name \in DOMAIN insts'[object.n].fields
             /\ insts' = [insts EXCEPT ![object.n].fields = MapSet(@, name, value)]
             /\ signal' = NoSignal
             /\ Head(vals') = value
C26_PropertyLookup == [][C26_Step]_vars

\* the clauses and the body of the for statement that begins at the parser's
\* current, each parsed by the method of the grammar for it; a clause that is
\* left out is null
ForInit ==
  IF check(tokens, pcurrent + 2, "SEMICOLON") THEN Parsed(null, pcurrent + 3, <<>>)
  ELSE IF check(tokens, pcurrent + 2, "VAR")
  THEN parserMethod("varDeclaration", 0, tokens, pcurrent + 3, NoResult)
  ELSE expressionStatement(tokens, pcurrent + 2)
ForCond ==
  IF check(tokens, ForInit.pos, "SEMICOLON") THEN Parsed(null, ForInit.pos, <<>>)
  ELSE expression(tokens, ForInit.pos)
ForInc ==
  IF check(tokens, ForCond.pos + 1, "RIGHT_PAREN") THEN Parsed(null, ForCond.pos + 1, <<>>)
  ELSE expression(tokens, ForCond.pos + 1)
ForBody == parserMethod("statement", 0, tokens, ForInc.pos + 1, NoResult)
\* While(cond', body or Block[body, ExpressionStmt(inc)])
ForWhile ==
  [type |-> "WhileStmt",
   condition |-> IF ForCond.expr = null
                 THEN [type |-> "LiteralExpr", value |-> BoolVal(TRUE)] ELSE ForCond.expr,
   body |-> IF ForInc.expr = null THEN ForBody.expr
            ELSE [type |-> "BlockStmt",
                  statements |-> <<ForBody.expr, [type |-> "ExpressionStmt",
                                                  expression |-> ForInc.expr]>>]]
\* the types of the nodes the resolver and the interpreter have a case for
NodeTypes ==
  {"BlockStmt", "ClassStmt", "ExpressionStmt", "FunctionStmt", "IfStmt", "PrintStmt",
   "ReturnStmt", "VarStmt", "WhileStmt", "AssignExpr", "BinaryExpr", "CallExpr", "GetExpr",
   "GroupingExpr", "LiteralExpr", "LogicalExpr", "SetExpr", "SuperExpr", "ThisExpr",
   "UnaryExpr", "VariableExpr"}

\* C27: a for statement that parses is pushed as Block[init, While(cond',
\* Block[body, ExpressionStmt(inc)])], the inner block being there only with
\* an increment, the outer block only with an initializer, and cond' being
\* the literal true without a condition; the statement is no node of a type
\* of its own, and the declaration of the initializer is in the outer block
C27_Step ==
  (/\ phase = "parse" /\ ~parserIsAtEnd(tokens, pcurrent)
   /\ parserPeek(tokens, pcurrent).type = "FOR"
   /\ phase' = "parse" /\ pcurrent' # pcurrent)
    => LET pushed == pstatements'[Len(pstatements')] IN
         /\ pstatements' = Append(pstatements, pushed)
         /\ pcurrent' = ForBody.pos
         /\ pushed = IF ForInit.expr = null THEN ForWhile
                     ELSE [type |-> "BlockStmt", statements |-> <<ForInit.expr, ForWhile>>]
         /\ pushed.type \in {"BlockStmt", "WhileStmt"}
         /\ (pushed.type = "BlockStmt") <=> (ForInit.expr # null)
         /\ ForWhile.body.type \in NodeTypes
         /\ (ForInit.expr.type = "VarStmt")
              => /\ pushed.statements[1].type = "VarStmt"
                 /\ Len(pushed.statements) = 2
                 /\ ForWhile.body.type # "VarStmt"
C27_ForDesugaring == [][C27_Step]_vars
\* a for statement with all three clauses was parsed without an error
C27_Witness ==
  /\ phase = "done"
  /\ ~hadError
  /\ Len(pstatements) = 2
  /\ pstatements[1].type = "BlockStmt"
  /\ Len(pstatements[1].statements) = 2
  /\ pstatements[1].statements[1].type = "VarStmt"
  /\ pstatements[1].statements[2].type = "WhileStmt"
  /\ pstatements[1].statements[2].condition.type = "VariableExpr"
  /\ pstatements[1].statements[2].body.type = "BlockStmt"
  /\ Len(pstatements[1].statements[2].body.statements) = 2
  /\ pstatements[1].statements[2].body.statements[1].type = "PrintStmt"
  /\ pstatements[1].statements[2].body.statements[2].type = "ExpressionStmt"
  /\ pstatements[1].statements[2].body.statements[2].expression.type = "AssignExpr"

\* the frames on the chain of enclosing links from the frame e, e included
RECURSIVE Chain(_, _)
Chain(es, e) == IF e = 0 THEN {} ELSE {e} \cup Chain(es, es[e].enclosing)
\* every frame but the globals is enclosed by a frame made before it, so that
\* every chain is finite and ends at the globals
Rooted(es) ==
  /\ es # <<>>
  /\ es[1].enclosing = 0
  /\ \A e \in 2..Len(es) : es[e].enclosing \in 1..(e - 1)
\* C28, in every state: the chain of every frame is finite and ends at the
\* globals, and the current environment and the closure of every function
\* are frames
C28_Rooted ==
  /\ Rooted(envs)
  /\ environment \in 1..Len(envs)
  /\ 1 \in Chain(envs, environment)
  /\ \A f \in DOMAIN funs : funs[f].closure \in 1..Len(envs) /\ 1 \in Chain(envs, funs[f].closure)
\* C28, in every step: the enclosing link of a frame is not assigned again, and
\* a new frame is enclosed by a frame that was made before it (a call of a
\* class makes the frame of the bind and then the frame of the call in one step)
C28_Step ==
  /\ Len(envs') >= Len(envs)
  /\ \A e \in DOMAIN envs : envs'[e].enclosing = envs[e].enclosing
  /\ \A e \in (DOMAIN envs') \ (DOMAIN envs) : envs'[e].enclosing \in 1..(e - 1)
\* C28: the environment chain is acyclic and rooted at the globals in every
\* reachable state; a frame made by a block, a call, a class statement with a
\* superclass or a bind is enclosed by a frame that existed already, enclosing
\* is never assigned again, and the chain from the current environment and
\* from the closure of any function reaches the globals
C28_EnvironmentChain == []C28_Rooted /\ [][C28_Step]_vars
\* a method bound to an instance of a subclass runs a block: the chain from the
\* current environment goes through the frames of the block, the call, the
\* bind and the class's super frame before the globals
C28_Witness ==
  /\ phase = "interpret"
  /\ Cardinality(Chain(envs, environment)) >= 5
  /\ \E e \in Chain(envs, environment) : "ThisExpr" \in DOMAIN envs[e].values
  /\ \E e \in Chain(envs, environment) : "SuperExpr" \in DOMAIN envs[e].values

\* the parser has not begun
Unparsed == phase = "parse" /\ pcurrent = 0 /\ pstatements = <<>> /\ stderr = <<>>
\* what parse() has left to do at most: the tokens before EOF that are not
\* consumed, counted twice, and the steps of the turn of the loop it is in
Rank(ph, pos) ==
  LET left == Len(tokens) - 1 - pos
  IN CASE ph = "done" -> 0
       [] ph = "parse" -> 2 * left + 2
       [] ph = "synchronize" -> IF left = 0 THEN 3 ELSE 2 * left + 1
\* C29, in every state: the list ends with its one EOF token, the cursor is
\* in 0..tokens.length-1, and parse() is in its loop (where a turn or the
\* end of the loop comes next), in the catch of a declaration, or has ended
C29_Cursor ==
  /\ phase \in {"parse", "synchronize", "done"}
  /\ pid = 0
  /\ tokens # <<>>
  /\ \A i \in DOMAIN tokens : (tokens[i].type = "EOF") <=> (i = Len(tokens))
  /\ pcurrent \in 0..(Len(tokens) - 1)
\* C29, in every step of parse(): a declaration that succeeds moves the cursor
\* on; one that fails has moved it on or left it before a token that is not
\* EOF, and then synchronize() moves it on; every step lowers Rank.  And for
\* the list parse() begins
\* on: a declaration() called before any token but EOF, which is what a turn
\* of the loop of parse() and of block() is, returns with the cursor further
\* on and in the list, whether it failed or not
C29_Step ==
  /\ (phase = "parse" /\ phase' = "parse") => pcurrent' > pcurrent
  /\ (phase = "parse" /\ phase' = "synchronize")
       => pcurrent' > pcurrent \/ (pcurrent' = pcurrent /\ ~parserIsAtEnd(tokens, pcurrent'))
  /\ Failed => pcurrent' > pcurrent \/ (pcurrent' = pcurrent /\ parserIsAtEnd(tokens, pcurrent))
  /\ (phase = "parse" /\ phase' = "done") => parserIsAtEnd(tokens, pcurrent)
  /\ Rank(phase', pcurrent') < Rank(phase, pcurrent)
  /\ Unparsed => \A pos \in 0..(Len(tokens) - 2) :
                   /\ ~declaration(tokens, pos).thrown
                   /\ declaration(tokens, pos).pos > pos
                   /\ declaration(tokens, pos).pos <= Len(tokens) - 1
\* C29: on every token list that ends with its one EOF token parse() ends
\* (every step it takes lowers Rank, a natural number that is 0 only when it
\* has ended); the cursor stays in 0..tokens.length-1, and every turn of the
\* loop of parse() and of block() moves it on, whether the declaration
\* succeeded or failed and was synchronized
C29_ParserTerminates == []C29_Cursor /\ [][C29_Step]_vars
\* parse() ended after a declaration that failed inside a block and one that
\* succeeded
C29_Witness ==
  /\ phase = "done"
  /\ hadError
  /\ pcurrent = Len(tokens) - 1
  /\ \E i \in DOMAIN pstatements : pstatements[i].type = "BlockStmt"
  /\ \E i \in DOMAIN pstatements : pstatements[i].type = "ExpressionStmt"

\* the scopes a task of the resolver has still to end: the one of a block or
\* of a function, and the one or two of a class once its body is entered
Opened(task) ==
  CASE task.k \in {"endBlock", "endFunction"} -> 1
    [] task.k = "endClass" -> IF N(task.n).a # 0 THEN 2 ELSE 1
    [] OTHER -> 0
RECURSIVE Open(_)
Open(tasks) == IF tasks = <<>> THEN 0 ELSE Opened(Head(tasks)) + Open(Tail(tasks))
\* the first task from i on whose kind is not in kinds (0 if there is none)
RECURSIVE Past(_, _)
Past(i, kinds) ==
  IF i > Len(rstack) THEN 0
  ELSE IF rstack[i].k \in kinds THEN Past(i + 1, kinds) ELSE i
\* the end of the function whose body the resolver is in, and the end of the
\* class that function is a method of
BodyEnd == Past(1, {"stmt", "expr", "define", "assignLocal"})
ClassEnd == Past(BodyEnd + 1, {"method"})
\* the resolver is at a statement of the body of a method
InMethodBody ==
  /\ RAt("stmt", "")
  /\ BodyEnd # 0
  /\ rstack[BodyEnd].k = "endFunction"
  /\ ClassEnd # 0
  /\ rstack[ClassEnd].k = "endClass"

\* C30: while the resolver runs, the scopes on the stack are those its
\* unfinished blocks, functions and classes have begun and will end (each
\* beginScope has its one endScope to come); in the body of a method the depth
\* is the depth at the class statement + 2, + 3 for a class with a
\* superclass; when resolveStatements has returned, with or without errors
\* reported, the stack is empty and currentFunction and currentClass are none
C30_ResolverBalanced ==
  /\ (phase = "resolve") => Len(scopes) = Open(rstack)
  /\ InMethodBody
       => Len(scopes) = Open(SubSeq(rstack, ClassEnd + 1, Len(rstack)))
                        + (IF N(rstack[ClassEnd].n).a # 0 THEN 3 ELSE 2)
  /\ ((phase = "resolve" /\ rstack = <<>>) \/ phase = "interpret")
       => /\ scopes = <<>>
          /\ currentFunction = "none"
          /\ currentClass = "none"
\* the resolver is in the body of a method of a class with a superclass that
\* is declared in a block: four scopes
C30_Witness ==
  /\ InMethodBody
  /\ N(rstack[ClassEnd].n).a # 0
  /\ Open(SubSeq(rstack, ClassEnd + 1, Len(rstack))) = 1
  /\ Len(scopes) = 4
Init ==
  /\ mode \in {"file", "prompt"}
  /\ lineNo = 1
  /\ ast = <<>>
  /\ pid \in IF mode = "file" THEN 1..Len(Programs) ELSE PromptLines
  /\ phase = "scan"
  /\ source = Programs[pid].source
  /\ start = 0
  /\ current = 0
  /\ line = 1
  /\ tokens = <<>>
  /\ pcurrent = 0
  /\ pstatements = <<>>
  /\ hadError = FALSE
  /\ stderr = <<>>
  /\ scopes = <<>>
  /\ currentFunction = "none"
  /\ currentClass = "none"
  /\ rstack = <<>>
  /\ locals = EmptyMap
  /\ visits = [n \in ProgramNodes(pid) |-> 0]
  /\ environment = 1
  /\ envs = <<[values |-> MapSet(EmptyMap, "clock", ClockVal), enclosing |-> 0]>>
  /\ funs = <<>>
  /\ classes = <<>>
  /\ insts = <<>>
  /\ kont = <<>>
  /\ vals = <<>>
  /\ signal = NoSignal
  /\ stdout = <<>>
  /\ outcome = ""

Next ==
  \/ ScanToken
  \/ ScanTokensEnd
  \/ RunParsed
  \/ ResolveStatement
  \/ ResolveExpr
  \/ RunResolved
  \/ EvaluateStmt
  \/ Evaluate
  \/ UnwindBlock
  \/ CatchReturn
  \/ Unwind
  \/ InterpretEnd
  \/ InterpretCatch
  \/ InterpretRethrow
  \/ RunPromptReset
  \/ RunPromptLine

Spec == Init /\ [][Next]_vars

\* the scanner alone, on every source of at most MaxSource characters
ScanAlphabet == {"\"", "\n", "a", "1", ".", "/", "=", " ", "@"}

RECURSIVE Sources(_)
Sources(len) ==
  IF len = 0 THEN {<<>>}
  ELSE LET shorter == Sources(len - 1)
       IN shorter \cup {Append(s, c) : s \in {x \in shorter : Len(x) = len - 1}, c \in ScanAlphabet}

ScanInit ==
  /\ mode = "file"
  /\ lineNo = 1
  /\ ast = <<>>
  /\ pid = 0
  /\ phase = "scan"
  /\ source \in Sources(MaxSource)
  /\ start = 0
  /\ current = 0
  /\ line = 1
  /\ tokens = <<>>
  /\ pcurrent = 0
  /\ pstatements = <<>>
  /\ hadError = FALSE
  /\ stderr = <<>>
  /\ scopes = <<>>
  /\ currentFunction = "none"
  /\ currentClass = "none"
  /\ rstack = <<>>
  /\ locals = EmptyMap
  /\ visits = <<>>
  /\ environment = 1
  /\ envs = <<[values |-> MapSet(EmptyMap, "clock", ClockVal), enclosing |-> 0]>>
  /\ funs = <<>>
  /\ classes = <<>>
  /\ insts = <<>>
  /\ kont = <<>>
  /\ vals = <<>>
  /\ signal = NoSignal
  /\ stdout = <<>>
  /\ outcome = ""

ScanNext ==
  \/ ScanToken
  \/ ScanTokensEnd

ScanSpec == ScanInit /\ [][ScanNext]_vars

\* the parser alone, on every list of at most MaxTokens tokens of ParseAlphabet
\* with the EOF token the scanner ends a list with
ParseAlphabet ==
  { Token("IDENTIFIER", "a", NilVal, 1), Token("NUMBER", "1", NumVal(1), 1),
    Token("EQUAL", "=", NilVal, 1), Token("DOT", ".", NilVal, 1),
    Token("LEFT_PAREN", "(", NilVal, 1), Token("RIGHT_PAREN", ")", NilVal, 1),
    Token("SEMICOLON", ";", NilVal, 1) }

RECURSIVE TokenLists(_)
TokenLists(len) ==
  IF len = 0 THEN {<<>>}
  ELSE LET shorter == TokenLists(len - 1)
       IN shorter \cup {Append(s, c) : s \in {x \in shorter : Len(x) = len - 1}, c \in ParseAlphabet}

\* a parser made for a list of tokens, before parse() is called; nothing else
\* has run
NewParser ==
  /\ mode = "file"
  /\ lineNo = 1
  /\ ast = <<>>
  /\ pid = 0
  /\ phase = "parse"
  /\ source = <<>>
  /\ start = 0
  /\ current = 0
  /\ line = 1
  /\ pcurrent = 0
  /\ pstatements = <<>>
  /\ hadError = FALSE
  /\ stderr = <<>>
  /\ scopes = <<>>
  /\ currentFunction = "none"
  /\ currentClass = "none"
  /\ rstack = <<>>
  /\ locals = EmptyMap
  /\ visits = <<>>
  /\ environment = 1
  /\ envs = <<[values |-> MapSet(EmptyMap, "clock", ClockVal), enclosing |-> 0]>>
  /\ funs = <<>>
  /\ classes = <<>>
  /\ insts = <<>>
  /\ kont = <<>>
  /\ vals = <<>>
  /\ signal = NoSignal
  /\ stdout = <<>>
  /\ outcome = ""

ParseInit ==
  /\ \E list \in TokenLists(MaxTokens) : tokens = Append(list, Token("EOF", "", NilVal, 1))
  /\ NewParser

ParseNext ==
  \/ ParseDeclaration
  \/ DeclarationCatch
  \/ ParseEnd

ParseSpec == ParseInit /\ [][ParseNext]_vars

\* The parser on statements: the token the scanner makes of a lexeme, and the
\* lists the statements below are made of
Lexeme(text) ==
  IF text \in keywords THEN Token(KeywordType(text), text, NilVal, 1)
  ELSE IF text \in {"(", ")", "{", "}", ",", ";"} THEN Token(SingleType(text), text, NilVal, 1)
  ELSE IF text \in {"=", "<"} THEN Token(PlainType(text), text, NilVal, 1)
  ELSE IF text = "1" THEN Token("NUMBER", text, NumVal(1), 1)
  ELSE Token("IDENTIFIER", text, NilVal, 1)
Lexemes(texts) == [i \in 1..Len(texts) |-> Lexeme(texts[i])]

\* every for statement with its initializer, condition, increment and body
\* drawn from the forms the grammar has for them, followed by a statement
ForInitializers == {<<";">>, <<"var", "i", "=", "1", ";">>, <<"i", ";">>}
ForConditions == {<<>>, <<"c">>}
ForIncrements == {<<>>, <<"i", "=", "1">>}
ForBodies == {<<"print", "i", ";">>, <<"{", "b", ";", "}">>}
ForStatements ==
  { <<"for", "(">> \o init \o cond \o <<";">> \o inc \o <<")">> \o body \o <<"z", ";">> :
      init \in ForInitializers, cond \in ForConditions, inc \in ForIncrements,
      body \in ForBodies }
\* the other statements and declarations
OtherStatements ==
  { <<"{", "a", ";", "print", "1", ";", "}", "z", ";">>,
    <<"{", "{", "var", "a", ";", "}", "b", ";", "}", "z", ";">>,
    <<"class", "A", "<", "B", "{", "m", "(", "p", ",", "q", ")", "{", "return", "p", ";", "}", "}">>,
    <<"fun", "f", "(", ")", "{", "if", "(", "a", ")", "b", ";", "else", "{", "}",
      "while", "(", "a", ")", "return", ";", "}">>,
    <<"a", "=", "1", ";", "var", "b", ";", "print", "b", ";">> }

\* the list without its i-th token
Drop(list, i) == SubSeq(list, 1, i - 1) \o SubSeq(list, i + 1, Len(list))
\* the lists with at most n tokens left out, which is how statements go wrong
RECURSIVE Dropped(_, _)
Dropped(lists, n) ==
  IF n = 0 THEN lists
  ELSE LET fewer == Dropped(lists, n - 1)
       IN fewer \cup UNION {{Drop(list, i) : i \in 1..Len(list)} : list \in fewer}
StatementLists == Dropped(ForStatements \cup OtherStatements, MaxDropped)

StatementInit ==
  /\ \E list \in StatementLists : tokens = Append(Lexemes(list), Token("EOF", "", NilVal, 1))
  /\ NewParser

StatementSpec == StatementInit /\ [][ParseNext]_vars
====
